---- MODULE Spec2Model ----
(***************************************************************************)
(* WAVE backend: experiment types, experiments and the dynamic experiment  *)
(* data tables (wave_backend.services / wave_backend.api.routes).          *)
(*                                                                         *)
(* The database is modelled as the set of physical tables with their rows  *)
(* and id sequences, plus the experiment_types and experiments rows.  One  *)
(* action is one HTTP request handler, run on its own database session.    *)
(***************************************************************************)
EXTENDS Integers, Sequences, FiniteSets, TLC

\* ------------------------------------------------------------------ bounds
\* values the experiment_types id sequence may hand out
MaxTypes == 2
\* experiments ever created (uuid4 never repeats a uuid)
MaxExperiments == 2
\* values a dynamic table's id sequence may hand out / explicit ids offered
MaxRowId == 2
\* readings of the clock by insert and update requests
MaxClock == 3
MaxTags == 2

\* ------------------------------------------------------------- value sets
UuidNames == <<"A", "B", "C", "D">>
Uuids == {UuidNames[k] : k \in 1..MaxExperiments}
\* None / empty string: the falsy experiment_uuid and participant_id
NoUuid == ""
NoParticipant == ""
Participants == {"p1", "p2"}
TypeNames == {"n1", "n2"}
\* a plain name, a name that needs quoting, a name no table can have, and
\* the static table of wave_backend.models.Tag
TableNames == {"t1", "a-b", "", "tags"}
\* a timestamp later than every reading of the clock
FarFuture == MaxClock + 5
\* Values a data map can hold under created_at / updated_at: a JSON body
\* carries text (Dict[str, Any] is not parsed), a Python caller can pass
\* datetime objects
IsoTimestamp == "2999-01-01T00:00:00"
PastDateTime == "datetime(1970, 1, 1)"
FutureDateTime == "datetime(2999, 1, 1)"
DateTimes == {PastDateTime, FutureDateTime}
DateTimeValue(v) == IF v = FutureDateTime THEN FarFuture ELSE 0
DateTimeColumns == {"created_at", "updated_at"}

EmptyMap == [k \in {} |-> "NULL"]
\* an optional field of a request body that is not set
NoneValue == "None"
Keys(m) == DOMAIN m
\* dict.update / item assignment: the right operand wins
Merge(m, n) == [k \in Keys(m) \cup Keys(n) |-> IF k \in Keys(n) THEN n[k] ELSE m[k]]

\* ----------------------------------------------------------------- tables
\* the required columns of create_experiment_table and their types
FixedTypes ==
    [id |-> "Integer", experiment_uuid |-> "UUID", participant_id |-> "String(100)",
     created_at |-> "DateTime", updated_at |-> "DateTime"]
FixedColumns == {"id", "experiment_uuid", "participant_id", "created_at", "updated_at"}
\* the columns of the static table of wave_backend.models.Tag
TagsTypes ==
    [id |-> "Integer", name |-> "String(100)", description |-> "Text",
     created_at |-> "DateTime(timezone=True)", updated_at |-> "DateTime(timezone=True)"]
TagsColumns == {"id", "name", "description", "created_at", "updated_at"}
TYPE_MAPPING ==
    [INTEGER |-> "Integer", FLOAT |-> "Float", STRING |-> "String(255)", TEXT |-> "Text",
     BOOLEAN |-> "Boolean", DATETIME |-> "DateTime", JSON |-> "JSON"]
SUPPORTED_COLUMN_TYPES == DOMAIN TYPE_MAPPING

\* str.upper() and str.lower() on the texts of the model: each triple holds
\* the upper-case, the lower-case and a mixed-case spelling of one word
CaseTable ==
    {<<"INTEGER", "integer", "Integer">>, <<"FLOAT", "float", "Float">>,
     <<"STRING", "string", "String">>, <<"TEXT", "text", "Text">>,
     <<"BOOLEAN", "boolean", "Boolean">>, <<"DATETIME", "datetime", "DateTime">>,
     <<"JSON", "json", "Json">>, <<"BLOB", "blob", "Blob">>,
     <<"ID", "id", "Id">>, <<"PARTICIPANT_ID", "participant_id", "Participant_Id">>,
     <<"CREATED_AT", "created_at", "Created_At">>,
     <<"UPDATED_AT", "updated_at", "Updated_At">>,
     <<"EXPERIMENT_UUID", "experiment_uuid", "Experiment_Uuid">>,
     <<"EXPERIMENTEE", "experimentee", "Experimentee">>,
     <<"RESEARCHER", "researcher", "Researcher">>, <<"ADMIN", "admin", "Admin">>,
     <<"TEST", "test", "Test">>,
     <<"X", "x", "X">>, <<"Y", "y", "Y">>}
Spellings(w) == {w[1], w[2], w[3]}
Upper(text) ==
    IF \E w \in CaseTable : text \in Spellings(w)
    THEN (CHOOSE w \in CaseTable : text \in Spellings(w))[1] ELSE text
Lower(text) ==
    IF \E w \in CaseTable : text \in Spellings(w)
    THEN (CHOOSE w \in CaseTable : text \in Spellings(w))[2] ELSE text

\* The values of a schema_definition: a bare type name, a {type, nullable}
\* object, and an object that has no "type"
Bare(type) == [form |-> "str", type |-> type]
Structured(type, nullable) == [form |-> "dict", type |-> type, nullable |-> nullable]
Untyped(nullable) == [form |-> "dict", nullable |-> nullable]
HasType(column_def) == "type" \in DOMAIN column_def

\* the schema_definition every experiment type of the model is created with
SchemaDefinitions == {[x |-> Bare("STRING")]}

\* CREATE TABLE "<name>" (SQLAlchemy quotes the identifier): PostgreSQL
\* rejects the zero-length identifier
CreateTableAccepts(table_name) == table_name # ""

\* The identifier written unquoted into text(f"DROP TABLE IF EXISTS {name}"):
\* a name of lower-case letters, digits and underscores names itself, any
\* other text is a syntax error (here: "a-b" and the empty name)
UnquotedIdent(table_name) ==
    CASE table_name = "t1" -> [ok |-> TRUE, name |-> "t1"]
      [] table_name = "tags" -> [ok |-> TRUE, name |-> "tags"]
      [] OTHER -> [ok |-> FALSE, name |-> table_name]

VARIABLES
    experiment_types,   \* rows of experiment_types
    type_seq,           \* last value of experiment_types_id_seq
    experiments,        \* rows of experiments
    exp_count,          \* experiments created so far (fresh uuids)
    tables,             \* physical tables: name -> [columns, rows, seq]
    inserted,           \* per table: (id, uuid) of the successful inserts not yet deleted
    existed,            \* names of the tables that have ever existed
    returned,           \* per table: the ids insert_data_row has returned so far
    now,                \* the clock
    validation_cache,   \* UnkeyClient._validation_cache: cache key -> [result, expires_at]
    last_validation,    \* the latest validate_key call: its arguments and what it did
    inflight            \* per request slot: where a request served in steps stands

\* The requests that are served in steps, and a slot with no request
Requests == {1, 2}
Idle == [pc |-> "idle"]
NoRequests == [r \in Requests |-> Idle]

vars == <<experiment_types, type_seq, experiments, exp_count, tables, inserted, returned,
          existed, now, validation_cache, last_validation, inflight>>

\* the state of the key validation client, and the stored data
authvars == <<validation_cache, last_validation>>
datavars == <<experiment_types, type_seq, experiments, exp_count, tables, inserted, returned,
              existed>>

TableExists(tbls, table_name) == table_name \in DOMAIN tbls

NewTable(types) == [columns |-> DOMAIN types, types |-> types, rows |-> {}, seq |-> 0]

PutTable(tbls, table_name, t) ==
    [n \in DOMAIN tbls \cup {table_name} |-> IF n = table_name THEN t ELSE tbls[n]]

RemoveTable(tbls, table_name) == [n \in DOMAIN tbls \ {table_name} |-> tbls[n]]

\* ------------------------------------------------- ExperimentDataService
\* Column list of create_experiment_table: the five fixed columns plus the
\* schema entries that are not one of those names
\* A bare type name maps through TYPE_MAPPING and falls back to String(255);
\* an object maps through TYPE_MAPPING (its type defaults to STRING) and is
\* left out when the type is not a key of TYPE_MAPPING.
CustomColumns(schema_definition) ==
    {c \in Keys(schema_definition) :
        /\ c \notin FixedColumns
        /\ \/ schema_definition[c].form = "str"
           \/ ~HasType(schema_definition[c])
           \/ Upper(schema_definition[c].type) \in DOMAIN TYPE_MAPPING}
CustomType(column_def) ==
    IF ~HasType(column_def) THEN TYPE_MAPPING["STRING"]
    ELSE IF Upper(column_def.type) \in DOMAIN TYPE_MAPPING
    THEN TYPE_MAPPING[Upper(column_def.type)]
    ELSE "String(255)"
TableTypes(schema_definition) ==
    [c \in FixedColumns \cup CustomColumns(schema_definition) |->
        IF c \in FixedColumns THEN FixedTypes[c] ELSE CustomType(schema_definition[c])]
TableColumns(schema_definition) == DOMAIN TableTypes(schema_definition)

\* create_experiment_table: metadata.create_all skips a table that is already
\* there (checkfirst) and the call still returns True; a CREATE TABLE the
\* server rejects is caught and leaves the session's transaction aborted.
create_experiment_table(tbls, table_name, schema_definition) ==
    IF TableExists(tbls, table_name)
    THEN [ok |-> TRUE, tables |-> tbls, aborted |-> FALSE]
    ELSE IF CreateTableAccepts(table_name)
    THEN [ok |-> TRUE,
          tables |-> PutTable(tbls, table_name, NewTable(TableTypes(schema_definition))),
          aborted |-> FALSE]
    ELSE [ok |-> FALSE, tables |-> tbls, aborted |-> TRUE]

\* drop_experiment_table: DROP TABLE IF EXISTS with the name as raw SQL text,
\* then commit; a SQLAlchemyError is caught and gives False
drop_experiment_table(tbls, table_name) ==
    LET ident == UnquotedIdent(table_name) IN
    IF ~ident.ok
    THEN [ok |-> FALSE, tables |-> tbls, aborted |-> TRUE]
    ELSE IF TableExists(tbls, ident.name)
    THEN [ok |-> TRUE, tables |-> RemoveTable(tbls, ident.name), aborted |-> FALSE]
    ELSE [ok |-> TRUE, tables |-> tbls, aborted |-> FALSE]

\* a reflection that hands back a Table object with the fixed columns for a
\* name that is not in the database
get_table_reflected_blank(tbls, table_name) ==
    IF TableExists(tbls, table_name)
    THEN [found |-> TRUE, table |-> tbls[table_name]]
    ELSE [found |-> TRUE, table |-> NewTable(FixedTypes)]

\* get_table_reflected: the live table, or None when there is none
\* (metadata.reflect(only=[name]) raises InvalidRequestError, a
\* SQLAlchemyError, for a name that is not in the database)
get_table_reflected(tbls, table_name) ==
    IF TableExists(tbls, table_name)
    THEN [found |-> TRUE, table |-> tbls[table_name]]
    ELSE [found |-> FALSE]

\* The row INSERT ... VALUES (**valid_data) stores: the given values, the
\* next value of the id sequence for an id that is not given, the server
\* default now() for the timestamps, NULL for any other column
NewRow(table, valid_data, clock) ==
    [c \in table.columns |->
        IF c \in Keys(valid_data)
        THEN IF c \in DateTimeColumns THEN DateTimeValue(valid_data[c]) ELSE valid_data[c]
        ELSE IF c = "id" THEN table.seq + 1
        ELSE IF c \in DateTimeColumns THEN clock
        ELSE "NULL"]

\* Binding the parameters of the INSERT: a timestamp column takes a datetime
\* object only, any other value is a DBAPIError (a SQLAlchemyError) raised
\* before the statement runs
BindError(valid_data) ==
    \E k \in Keys(valid_data) \cap DateTimeColumns : valid_data[k] \notin DateTimes

\* a merge in which the keys of the data map win over the arguments
InjectedKeys_data_wins(data, experiment_uuid, participant_id) ==
    Merge([experiment_uuid |-> experiment_uuid, participant_id |-> participant_id], data)

\* The experiment_uuid and participant_id that insert_data_row writes into
\* the data map before it looks at the columns
InjectedKeys(data, experiment_uuid, participant_id) ==
    Merge(data, [experiment_uuid |-> experiment_uuid, participant_id |-> participant_id])

\* insert_data_row.  kind "None": the table is missing, a value could not be
\* bound, or the INSERT hit the primary key (a SQLAlchemyError, caught);
\* "ValueError": unknown columns, raised to the caller; "id": the id
\* RETURNING gave back.  nextval() is not undone when the INSERT fails; an
\* explicit id leaves the sequence alone.
insert_data_row(tbls, clock, table_name, experiment_uuid, participant_id, data) ==
    LET refl == get_table_reflected(tbls, table_name) IN
    IF ~refl.found
    THEN [kind |-> "None", tables |-> tbls]
    ELSE
    LET table == refl.table
        merged == InjectedKeys(data, experiment_uuid, participant_id)
        missing_columns == {k \in Keys(merged) : k \notin table.columns}
        valid_data == [k \in Keys(merged) \cap table.columns |-> merged[k]]
    IN
    IF missing_columns # {}
    THEN [kind |-> "ValueError", missing_columns |-> missing_columns, tables |-> tbls]
    ELSE IF BindError(valid_data)
    THEN [kind |-> "None", tables |-> tbls]
    ELSE
    LET row == NewRow(table, valid_data, clock)
        seq == IF "id" \in Keys(valid_data) THEN table.seq ELSE table.seq + 1
    IN
    IF \E r \in table.rows : r.id = row.id
    THEN [kind |-> "None",
          tables |-> [tbls EXCEPT ![table_name].seq = seq]]
    ELSE [kind |-> "id", id |-> row.id,
          tables |-> [tbls EXCEPT ![table_name].seq = seq,
                                  ![table_name].rows = table.rows \cup {row}]]

\* created_after / created_before left at None
NoTime == -1

\* _apply_query_filters without the experiment_uuid clause
apply_query_filters_unscoped(r, table, experiment_uuid, participant_id, filters, created_after, created_before) ==
    /\ participant_id # NoParticipant => r.participant_id = participant_id
    /\ created_after # NoTime => r.created_at >= created_after
    /\ created_before # NoTime => r.created_at <= created_before
    /\ \A key \in Keys(filters) :
          key \in table.columns => (r[key] # "NULL" /\ r[key] = filters[key])

\* _apply_query_filters: the WHERE clauses as a predicate on one row.  A
\* falsy argument (None, "", {}) adds no clause; a filter key that is no
\* column is skipped; NULL equals nothing.
apply_query_filters(r, table, experiment_uuid, participant_id, filters, created_after, created_before) ==
    /\ experiment_uuid # NoUuid => r.experiment_uuid = experiment_uuid
    /\ participant_id # NoParticipant => r.participant_id = participant_id
    /\ created_after # NoTime => r.created_at >= created_after
    /\ created_before # NoTime => r.created_at <= created_before
    /\ \A key \in Keys(filters) :
          key \in table.columns => (r[key] # "NULL" /\ r[key] = filters[key])

\* table.c.<name> of a column the reflected table does not have raises
\* AttributeError, which none of the service methods catches
MissingAttribute(table, experiment_uuid, participant_id) ==
    \/ experiment_uuid # NoUuid /\ "experiment_uuid" \notin table.columns
    \/ participant_id # NoParticipant /\ "participant_id" \notin table.columns

\* ORDER BY created_at DESC: every order of the rows in which created_at
\* never increases (the database may return rows of equal created_at in any
\* order)
RECURSIVE Orderings(_)
Orderings(rows) ==
    IF rows = {} THEN {<<>>}
    ELSE UNION {{<<r>> \o rest : rest \in Orderings(rows \ {r})} :
                  r \in {q \in rows : \A p \in rows : p.created_at <= q.created_at}}

\* LIMIT limit OFFSET offset
Page(s, limit, offset) ==
    SubSeq(s, offset + 1, IF offset + limit < Len(s) THEN offset + limit ELSE Len(s))

\* get_data_rows: the lists of rows the call can return
get_data_rows(tbls, table_name, experiment_uuid, participant_id, filters, created_after, created_before, limit, offset) ==
    LET refl == get_table_reflected(tbls, table_name) IN
    IF ~refl.found THEN [kind |-> "rows", lists |-> {<<>>}]
    ELSE IF MissingAttribute(refl.table, experiment_uuid, participant_id)
    THEN [kind |-> "AttributeError", lists |-> {}]
    ELSE LET matching == {r \in refl.table.rows :
                            apply_query_filters(r, refl.table, experiment_uuid,
                                participant_id, filters, created_after, created_before)}
         IN  [kind |-> "rows",
              lists |-> {Page(s, limit, offset) : s \in Orderings(matching)}]

\* count_data_rows that counts the whole table
count_data_rows_unfiltered(tbls, table_name, experiment_uuid, participant_id, filters) ==
    [kind |-> "count",
     count |-> IF TableExists(tbls, table_name)
               THEN Cardinality(tbls[table_name].rows) ELSE 0]

\* count_data_rows: the filters of get_data_rows without the date range
count_data_rows(tbls, table_name, experiment_uuid, participant_id, filters) ==
    LET refl == get_table_reflected(tbls, table_name) IN
    IF ~refl.found THEN [kind |-> "count", count |-> 0]
    ELSE IF MissingAttribute(refl.table, experiment_uuid, participant_id)
    THEN [kind |-> "AttributeError", count |-> 0]
    ELSE [kind |-> "count",
          count |-> Cardinality({r \in refl.table.rows :
                        apply_query_filters(r, refl.table, experiment_uuid,
                            participant_id, filters, NoTime, NoTime)})]

\* WHERE id = row_id [AND experiment_uuid = experiment_uuid]
RowScope(table, row_id, experiment_uuid) ==
    {r \in table.rows :
        /\ r.id = row_id
        /\ experiment_uuid # NoUuid => r.experiment_uuid = experiment_uuid}

\* get_data_row_by_id that looks the row up by its id alone
get_data_row_by_id_unscoped(tbls, table_name, row_id, experiment_uuid) ==
    IF ~TableExists(tbls, table_name) THEN [kind |-> "row", row |-> {}]
    ELSE [kind |-> "row", row |-> {r \in tbls[table_name].rows : r.id = row_id}]

\* get_data_row_by_id: the set holding the row, or the empty set for None
get_data_row_by_id(tbls, table_name, row_id, experiment_uuid) ==
    LET refl == get_table_reflected(tbls, table_name) IN
    IF ~refl.found THEN [kind |-> "row", row |-> {}]
    ELSE IF MissingAttribute(refl.table, experiment_uuid, NoParticipant)
    THEN [kind |-> "AttributeError", row |-> {}]
    ELSE [kind |-> "row", row |-> RowScope(refl.table, row_id, experiment_uuid)]

\* The keys update_data_row keeps from the payload
ForbiddenColumns == {"id", "experiment_uuid", "created_at"}
ValidUpdateData(table, data) ==
    [k \in {k \in Keys(data) : k \notin ForbiddenColumns /\ k \in table.columns} |-> data[k]]

\* an UPDATE that writes one of the columns of values only
UpdateStatement_one_column(row, values) ==
    LET k == CHOOSE c \in Keys(values) : TRUE IN Merge(row, [c \in {k} |-> values[c]])

\* update(table).where(...).values(**valid_data): one statement, which sets
\* every column of values on the row as it is when the statement runs
UpdateStatement(row, values) == Merge(row, values)

\* update_data_row: False for a missing table, for a payload with nothing
\* left to write and when no row matched; updated_at is set to the clock
update_data_row(tbls, clock, table_name, row_id, data, experiment_uuid) ==
    LET refl == get_table_reflected(tbls, table_name) IN
    IF ~refl.found THEN [kind |-> "False", tables |-> tbls]
    ELSE
    LET table == refl.table
        valid_data == ValidUpdateData(table, data)
    IN
    IF Keys(valid_data) = {} THEN [kind |-> "False", tables |-> tbls]
    ELSE IF MissingAttribute(table, experiment_uuid, NoParticipant)
    THEN [kind |-> "AttributeError", tables |-> tbls]
    ELSE
    LET values == Merge(valid_data, [updated_at |-> clock])
        hit == RowScope(table, row_id, experiment_uuid)
        written == {UpdateStatement(r, values) : r \in hit}
    IN  [kind |-> IF hit # {} THEN "True" ELSE "False",
         tables |-> [tbls EXCEPT ![table_name].rows = (table.rows \ hit) \cup written]]

\* delete_data_row with WHERE id = row_id alone
delete_data_row_unscoped(tbls, table_name, row_id, experiment_uuid) ==
    IF ~TableExists(tbls, table_name) THEN [kind |-> "False", tables |-> tbls]
    ELSE LET hit == {r \in tbls[table_name].rows : r.id = row_id} IN
         [kind |-> IF hit # {} THEN "True" ELSE "False",
          tables |-> [tbls EXCEPT ![table_name].rows = @ \ hit]]

\* delete_data_row
delete_data_row(tbls, table_name, row_id, experiment_uuid) ==
    LET refl == get_table_reflected(tbls, table_name) IN
    IF ~refl.found THEN [kind |-> "False", tables |-> tbls]
    ELSE IF MissingAttribute(refl.table, experiment_uuid, NoParticipant)
    THEN [kind |-> "AttributeError", tables |-> tbls]
    ELSE
    LET hit == RowScope(refl.table, row_id, experiment_uuid) IN
        [kind |-> IF hit # {} THEN "True" ELSE "False",
         tables |-> [tbls EXCEPT ![table_name].rows = refl.table.rows \ hit]]

\* get_table_columns: name and type of each column, [] for a missing table
get_table_columns(tbls, table_name) ==
    LET refl == get_table_reflected(tbls, table_name) IN
    IF ~refl.found THEN {}
    ELSE {[column_name |-> c, column_type |-> refl.table.types[c]] : c \in refl.table.columns}

\* ------------------------------------------------------------- schemas
\* ColumnDefinition as pydantic builds it from one schema_definition value
\* (Union[str, ColumnDefinition]): a text is kept as it is, an object needs
\* "type" (Field required) and validate_column_type returns v.upper()
ParseError(column_def) ==
    IF column_def.form = "str" THEN "none"
    ELSE IF ~HasType(column_def) THEN "MissingTypeField"
    ELSE IF Upper(column_def.type) \notin SUPPORTED_COLUMN_TYPES THEN "UnsupportedColumnType"
    ELSE "none"
validate_column_type(column_def) ==
    IF column_def.form = "str" THEN column_def
    ELSE Structured(Upper(column_def.type), column_def.nullable)

\* validate_schema_definition runs on the parsed values: a key is refused
\* when its lower-case form is reserved, a text when its upper-case form is
\* no supported type; the branch for dict values never applies to a
\* ColumnDefinition object; v is returned as it came.
ReservedNames == {"id", "participant_id", "created_at", "updated_at"}
\* the validator comparing the key as it is written
ValidatorError_case_sensitive(column_name, column_def) ==
    IF column_name \in ReservedNames THEN "ReservedColumnName"
    ELSE IF column_def.form = "str" /\ Upper(column_def.type) \notin SUPPORTED_COLUMN_TYPES
    THEN "UnsupportedColumnType"
    ELSE "none"
ValidatorError(column_name, column_def) ==
    IF Lower(column_name) \in ReservedNames THEN "ReservedColumnName"
    ELSE IF column_def.form = "str" /\ Upper(column_def.type) \notin SUPPORTED_COLUMN_TYPES
    THEN "UnsupportedColumnType"
    ELSE "none"

\* ExperimentTypeCreate(schema_definition=v).schema_definition: the errors
\* are those of the values pydantic could not parse, else the error of the
\* first key the validator refuses (any refused key can be that first key)
validate_schema_definition(v) ==
    LET parse_errors == {ParseError(v[k]) : k \in Keys(v)} \ {"none"}
        parsed == [k \in Keys(v) |-> validate_column_type(v[k])]
        errors == {ValidatorError(k, parsed[k]) : k \in Keys(v)} \ {"none"}
    IN  IF parse_errors # {} THEN [ok |-> FALSE, errors |-> parse_errors]
        ELSE IF errors # {} THEN [ok |-> FALSE, errors |-> errors]
        ELSE [ok |-> TRUE, errors |-> {}, schema_definition |-> parsed]

\* ExperimentTypeUpdate(schema_definition=v).schema_definition:
\* Optional[Dict[str, Any]] with no validator
update_schema_definition(v) ==
    [ok |-> TRUE, errors |-> {}, schema_definition |-> v]

\* ------------------------------------------------- ExperimentTypeService
\* get_experiment_type: the row with this id (a set of at most one row)
get_experiment_type(types, experiment_type_id) ==
    {t \in types : t.id = experiment_type_id}

\* get_experiment_type_by_name
get_experiment_type_by_name(types, name) ==
    {t \in types : t.name = name}

\* ExperimentService.get_experiment
get_experiment(exps, experiment_uuid) ==
    {e \in exps : e.uuid = experiment_uuid}

\* -------------------------------------------------------------- TagService
\* select(Tag).where(Tag.name == name): the rows of table tags with that name
get_tag_by_name(tbls, name) == {r \in tbls["tags"].rows : r.name = name}
get_tag(tbls, tag_id) == {r \in tbls["tags"].rows : r.id = tag_id}

\* create_tag: INSERT into tags; id from the sequence, timestamps from now()
create_tag(tbls, clock, tag) ==
    LET table == tbls["tags"]
        row == [id |-> table.seq + 1, name |-> tag.name, description |-> tag.description,
                created_at |-> clock, updated_at |-> clock]
    IN  [tbls EXCEPT !["tags"].seq = table.seq + 1, !["tags"].rows = table.rows \cup {row}]

\* delete_tag: False when there is no such tag, else the row is deleted
delete_tag(tbls, tag_id) ==
    [kind |-> IF get_tag(tbls, tag_id) = {} THEN "False" ELSE "True",
     tables |-> [tbls EXCEPT !["tags"].rows = @ \ get_tag(tbls, tag_id)]]

\* ------------------------------------------------------- ExperimentService
\* the tag check of create_experiment and update_experiment with only the
\* first name of the list looked up
FirstMissingTag_head_only(tbls, tag_names) ==
    IF tag_names # <<>> /\ get_tag_by_name(tbls, tag_names[1]) = {}
    THEN {tag_names[1]}
    ELSE {}

\* The loop over the tag names: the first name of the list that is the name
\* of no Tag row raises the ValueError; the empty set when all names exist
FirstMissingTag(tbls, tag_names) ==
    LET missing == {i \in 1..Len(tag_names) : get_tag_by_name(tbls, tag_names[i]) = {}}
    IN  IF missing = {} THEN {}
        ELSE {tag_names[CHOOSE i \in missing : \A j \in missing : i <= j]}

\* db.add(Experiment(**experiment.model_dump())) and commit: the foreign key
\* refuses a type id that has no row; the row gets a fresh uuid
add_experiment(types, exps, count, experiment) ==
    IF get_experiment_type(types, experiment.experiment_type_id) = {}
    THEN [kind |-> "IntegrityError", tag |-> {}, experiments |-> exps, exp_count |-> count]
    ELSE [kind |-> "Experiment", tag |-> {},
          experiments |-> exps \cup
             {[uuid |-> UuidNames[count + 1],
               experiment_type_id |-> experiment.experiment_type_id,
               description |-> experiment.description,
               tags |-> experiment.tags,
               additional_data |-> experiment.additional_data]},
          exp_count |-> count + 1]

\* create_experiment: the tags are checked first; then the row is added and
\* committed, which the foreign key refuses for a type id without a row.
\* The participant_id column of experiments (models.py:50), for which
\* ExperimentCreate has no field, is left out of the rows.
create_experiment(types, tbls, exps, count, experiment) ==
    IF FirstMissingTag(tbls, experiment.tags) # {}
    THEN [kind |-> "ValueError", tag |-> FirstMissingTag(tbls, experiment.tags),
          experiments |-> exps, exp_count |-> count]
    ELSE add_experiment(types, exps, count, experiment)

\* update_experiment: None for an unknown uuid; when the patch has a
\* non-empty tags list the names are checked before any field is set; then
\* every field of the patch is set and committed
update_experiment(tbls, exps, experiment_uuid, update_data) ==
    LET found == get_experiment(exps, experiment_uuid)
        checked == IF "tags" \in DOMAIN update_data
                   THEN FirstMissingTag(tbls, update_data.tags) ELSE {}
    IN
    IF found = {} THEN [kind |-> "None", tag |-> {}, experiments |-> exps]
    ELSE IF checked # {} THEN [kind |-> "ValueError", tag |-> checked, experiments |-> exps]
    ELSE [kind |-> "Experiment", tag |-> {},
          experiments |-> (exps \ found) \cup {Merge(e, update_data) : e \in found}]

\* a table experiment_types without unique constraints
UniqueViolation_unconstrained(types, name, table_name) == types # types

\* unique=True of ExperimentType.name and ExperimentType.table_name: the
\* commit of a row is rejected (IntegrityError) when a committed row has
\* the same name or the same table_name
UniqueViolation(types, name, table_name) ==
    \E t \in types : t.table_name = table_name \/ t.name = name

\* ExperimentTypeService.create_experiment_type on a session of its own:
\* add + commit the row (the id sequence advances even when the unique
\* constraint on table_name rejects it), create the table, and on False
\* delete + commit the row again, which raises when the failed CREATE TABLE
\* left the transaction aborted.
create_experiment_type(types, seq, tbls, name, table_name, schema_definition) ==
    IF UniqueViolation(types, name, table_name)
    THEN [kind |-> "IntegrityError", experiment_types |-> types, type_seq |-> seq + 1,
          tables |-> tbls, table_created |-> "not called"]
    ELSE LET db_experiment_type ==
                 [id |-> seq + 1, name |-> name, table_name |-> table_name,
                  schema_definition |-> schema_definition]
             made == create_experiment_table(tbls, table_name, schema_definition)
         IN  IF made.ok
             THEN [kind |-> "Created", experiment_types |-> types \cup {db_experiment_type},
                   type_seq |-> seq + 1, tables |-> made.tables, table_created |-> "True"]
             ELSE IF made.aborted
             THEN [kind |-> "DBAPIError", experiment_types |-> types \cup {db_experiment_type},
                   type_seq |-> seq + 1, tables |-> made.tables, table_created |-> "False"]
             ELSE [kind |-> "RuntimeError", experiment_types |-> types,
                   type_seq |-> seq + 1, tables |-> made.tables, table_created |-> "False"]

\* ExperimentTypeService.update_experiment_type: None without the row, else
\* every field of model_dump(exclude_unset=True) is set and committed
update_experiment_type(types, experiment_type_id, update_data) ==
    LET found == get_experiment_type(types, experiment_type_id) IN
    IF found = {} THEN [kind |-> "None", experiment_types |-> types]
    ELSE LET db_experiment_type == CHOOSE t \in found : TRUE
             updated == [f \in DOMAIN db_experiment_type |->
                            IF f \in Keys(update_data) THEN update_data[f]
                            ELSE db_experiment_type[f]]
         IN  [kind |-> "Updated", experiment_types |-> (types \ found) \cup {updated}]

\* The commit of db.delete(db_experiment_type): rejected while a row of
\* experiments still references the type (experiment_type_id is NOT NULL
\* with a foreign key), and on a transaction an earlier error aborted.
DeleteTypeRowCommits(exps, experiment_type_id, aborted) ==
    /\ ~aborted
    /\ ~\E e \in exps : e.experiment_type_id = experiment_type_id

\* ExperimentTypeService.delete_experiment_type: drop_experiment_table
\* commits the DROP on its own, its result is not looked at, then the row
\* is deleted and committed.
delete_experiment_type(types, exps, tbls, experiment_type_id) ==
    LET found == get_experiment_type(types, experiment_type_id) IN
    IF found = {}
    THEN [kind |-> "False", experiment_types |-> types, tables |-> tbls, dropped |-> TRUE]
    ELSE LET db_experiment_type == CHOOSE t \in found : TRUE
             dropped == drop_experiment_table(tbls, db_experiment_type.table_name)
         IN  IF DeleteTypeRowCommits(exps, experiment_type_id, dropped.aborted)
             THEN [kind |-> "True", experiment_types |-> types \ found,
                   tables |-> dropped.tables, dropped |-> dropped.ok]
             ELSE [kind |-> IF dropped.aborted THEN "DBAPIError" ELSE "IntegrityError",
                   experiment_types |-> types, tables |-> dropped.tables,
                   dropped |-> dropped.ok]

\* The bookkeeping of the history variables after the tables changed
InsertedAfter(ins, tbls) ==
    [n \in DOMAIN tbls |-> IF n \in DOMAIN ins THEN ins[n] ELSE {}]

\* ------------------------------------------------------------- requests
\* POST /experiment-types/ : 422 when ExperimentTypeCreate refuses the body;
\* the route answers 400 when the name is taken, else calls the service
CreateExperimentType(name, table_name, schema_definition) ==
    /\ type_seq < MaxTypes
    /\ IF \/ ~validate_schema_definition(schema_definition).ok
          \/ get_experiment_type_by_name(experiment_types, name) # {}
       THEN UNCHANGED <<experiment_types, type_seq, tables, inserted, returned, existed>>
       ELSE LET out == create_experiment_type(experiment_types, type_seq, tables,
                           name, table_name,
                           validate_schema_definition(schema_definition).schema_definition)
            IN  /\ experiment_types' = out.experiment_types
                /\ type_seq' = out.type_seq
                /\ tables' = out.tables
                /\ existed' = existed \cup DOMAIN out.tables
                /\ inserted' = InsertedAfter(inserted, out.tables)
                /\ returned' = InsertedAfter(returned, out.tables)
    /\ UNCHANGED <<experiments, exp_count, now>>
    /\ UNCHANGED <<authvars, inflight>>

\* model_dump(exclude_unset=True) of the body of PUT /experiment-types/{id}
\* (ExperimentTypeUpdate; the body holds the fields that are set)
TypeUpdateData(body) ==
    [f \in Keys(body) |->
        IF f = "schema_definition"
        THEN update_schema_definition(body[f]).schema_definition ELSE body[f]]

\* PUT /experiment-types/{id} : 422 when ExperimentTypeUpdate refuses the
\* body, 400 when another type has the new name, 404 without the row
UpdateExperimentType(experiment_type_id, body) ==
    /\ IF \/ /\ "schema_definition" \in Keys(body)
             /\ ~update_schema_definition(body.schema_definition).ok
          \/ /\ "name" \in Keys(body)
             /\ \E t \in get_experiment_type_by_name(experiment_types, body.name) :
                   t.id # experiment_type_id
       THEN UNCHANGED experiment_types
       ELSE experiment_types' = update_experiment_type(experiment_types, experiment_type_id,
                                                       TypeUpdateData(body)).experiment_types
    /\ UNCHANGED <<type_seq, experiments, exp_count, tables, inserted, returned, existed, now>>
    /\ UNCHANGED <<authvars, inflight>>

\* DELETE /experiment-types/{id}
DeleteExperimentType(experiment_type_id) ==
    /\ LET out == delete_experiment_type(experiment_types, experiments, tables,
                                         experiment_type_id)
       IN  /\ experiment_types' = out.experiment_types
           /\ tables' = out.tables
           /\ inserted' = InsertedAfter(inserted, out.tables)
           /\ returned' = InsertedAfter(returned, out.tables)
    /\ UNCHANGED <<type_seq, experiments, exp_count, existed, now>>
    /\ UNCHANGED <<authvars, inflight>>

\* experiment.experiment_type.table_name of a loaded experiment
TableNameOf(types, experiment) ==
    (CHOOSE t \in types : t.id = experiment.experiment_type_id).table_name

\* ----------------------------------------------------------- SearchService
\* the limit search_experiments_by_tags is called with, and the limit of
\* each get_data_rows call, in get_experiment_data_by_tags
SEARCH_EXPERIMENTS_LIMIT == 1000
SEARCH_ROWS_LIMIT == 1000

\* Experiment.tags.any(tag) for all, or for any, of the tags; an empty list
\* adds no clause
MatchesTags(e, tags, match_all) ==
    LET has(i) == \E j \in 1..Len(e.tags) : e.tags[j] = tags[i] IN
    \/ tags = <<>>
    \/ match_all /\ \A i \in 1..Len(tags) : has(i)
    \/ ~match_all /\ \E i \in 1..Len(tags) : has(i)

\* len() of what OFFSET offset LIMIT limit leaves of n rows
PageLen(n, limit, offset) ==
    IF n <= offset THEN 0 ELSE IF n - offset < limit THEN n - offset ELSE limit

\* search_experiments_by_tags without date range: the sets of experiments
\* the call can return (the order among them is the database's)
search_experiments_by_tags(exps, tags, match_all, skip, limit) ==
    LET matching == {e \in exps : MatchesTags(e, tags, match_all)}
    IN  {S \in SUBSET matching : Cardinality(S) = PageLen(Cardinality(matching), limit, skip)}

\* len(experiment_data) of the get_data_rows call for one experiment: the
\* rows of the experiment's table under its uuid, cut at limit
data_count(tbls, table_name, experiment_uuid, limit) ==
    LET refl == get_table_reflected(tbls, table_name) IN
    IF ~refl.found THEN 0
    ELSE PageLen(Cardinality({r \in refl.table.rows :
                    apply_query_filters(r, refl.table, experiment_uuid, NoParticipant,
                                        EmptyMap, NoTime, NoTime)}),
                 limit, 0)

RECURSIVE SumOver(_, _)
SumOver(f, keys) ==
    IF keys = {} THEN 0
    ELSE LET k == CHOOSE x \in keys : TRUE IN f[k] + SumOver(f, keys \ {k})

\* get_experiment_data_by_tags without date range: the results the call can
\* return, as the counts of the response (total_rows = len(all_data),
\* data_len = len(all_data[skip : skip + limit]), data_count per uuid)
get_experiment_data_by_tags(types, exps, tbls, tags, match_all, skip, limit) ==
    {LET info == [u \in {e.uuid : e \in found} |->
                     data_count(tbls,
                                TableNameOf(types, CHOOSE e \in found : e.uuid = u),
                                u, SEARCH_ROWS_LIMIT)]
         total == SumOver(info, DOMAIN info)
     IN  [total_rows |-> total,
          total_experiments |-> Cardinality(found),
          data_len |-> PageLen(total, limit, skip),
          experiment_info |-> info] :
       found \in search_experiments_by_tags(exps, tags, match_all, 0,
                                            SEARCH_EXPERIMENTS_LIMIT)}

\* Request bodies of POST /experiment-data/{id}/data/ (ExperimentDataCreate.data)
InsertPayloads ==
    {EmptyMap, [x |-> "v1"], [bogus |-> "v1"], [x |-> "v1", bogus |-> "v1", junk |-> "v1"],
     [created_at |-> IsoTimestamp, updated_at |-> IsoTimestamp]}
    \cup {[id |-> k] : k \in 1..MaxRowId}
    \cup {[experiment_uuid |-> UuidNames[1], participant_id |-> "p1"]}

\* POST /experiment-data/{experiment_id}/data/ : create_experiment_data
\* (404 without the experiment; 400 on ValueError and on None), served
\* elapsed ticks of the clock after the previous request (0: within the same
\* reading of now()), with the id sequences of the tables kept within
\* max_row_id
CreateExperimentDataAfter(elapsed, max_row_id, experiment_id, participant_id, data) ==
    /\ LET found == get_experiment(experiments, experiment_id) IN
       IF found = {}
       THEN UNCHANGED <<tables, inserted, returned, now>>
       ELSE LET experiment == CHOOSE e \in found : TRUE
                table_name == TableNameOf(experiment_types, experiment)
                out == insert_data_row(tables, now + elapsed, table_name, experiment_id,
                                       participant_id, data)
            IN  /\ now + elapsed <= MaxClock
                /\ \A n \in DOMAIN out.tables : out.tables[n].seq <= max_row_id
                /\ now' = now + elapsed
                /\ tables' = out.tables
                /\ IF out.kind = "id"
                   THEN /\ inserted' = [inserted EXCEPT ![table_name] =
                                          {p \in @ : p[1] # out.id} \cup {<<out.id, experiment_id>>}]
                        /\ returned' = [returned EXCEPT ![table_name] = @ \cup {out.id}]
                   ELSE UNCHANGED <<inserted, returned>>
    /\ UNCHANGED <<experiment_types, type_seq, experiments, exp_count, existed>>
    /\ UNCHANGED <<authvars, inflight>>

\* the request served one tick of the clock after the previous one
CreateExperimentDataWithin(max_row_id, experiment_id, participant_id, data) ==
    CreateExperimentDataAfter(1, max_row_id, experiment_id, participant_id, data)

CreateExperimentData(experiment_id, participant_id, data) ==
    CreateExperimentDataWithin(MaxRowId, experiment_id, participant_id, data)

\* ExperimentDataUpdate: participant_id and data are both optional
UpdateBodies ==
    {[participant_id |-> NoneValue, data |-> EmptyMap],
     [participant_id |-> "p2", data |-> EmptyMap],
     [participant_id |-> NoneValue, data |-> [x |-> "v2"]],
     [participant_id |-> NoneValue, data |-> [bogus |-> "v2"]]}
    \cup {[participant_id |-> NoneValue,
           data |-> [id |-> MaxRowId + 1, experiment_uuid |-> UuidNames[1],
                     created_at |-> IsoTimestamp]],
          [participant_id |-> NoneValue,
           data |-> [id |-> MaxRowId + 1, experiment_uuid |-> UuidNames[1],
                     created_at |-> IsoTimestamp, updated_at |-> IsoTimestamp, x |-> "v2"]]}

\* update_data of the route update_experiment_data
UpdateData(body) ==
    Merge(IF body.participant_id # NoneValue
          THEN [participant_id |-> body.participant_id] ELSE EmptyMap,
          body.data)

\* PUT /experiment-data/{experiment_id}/data/row/{row_id}
UpdateExperimentData(experiment_id, row_id, body) ==
    /\ LET found == get_experiment(experiments, experiment_id) IN
       IF found = {}
       THEN UNCHANGED <<tables, now>>
       ELSE LET experiment == CHOOSE e \in found : TRUE
                table_name == TableNameOf(experiment_types, experiment)
                out == update_data_row(tables, now + 1, table_name, row_id,
                                       UpdateData(body), experiment_id)
            IN  /\ now < MaxClock
                /\ now' = now + 1
                /\ tables' = out.tables
    /\ UNCHANGED <<experiment_types, type_seq, experiments, exp_count, inserted, returned,
                   existed>>
    /\ UNCHANGED <<authvars, inflight>>

\* DELETE /experiment-data/{experiment_id}/data/row/{row_id}
DeleteExperimentData(experiment_id, row_id) ==
    /\ LET found == get_experiment(experiments, experiment_id) IN
       IF found = {}
       THEN UNCHANGED <<tables, inserted>>
       ELSE LET experiment == CHOOSE e \in found : TRUE
                table_name == TableNameOf(experiment_types, experiment)
                out == delete_data_row(tables, table_name, row_id, experiment_id)
            IN  /\ tables' = out.tables
                /\ IF out.kind = "True"
                   THEN inserted' = [inserted EXCEPT ![table_name] =
                                       {p \in @ : p[1] # row_id}]
                   ELSE UNCHANGED inserted
    /\ UNCHANGED <<experiment_types, type_seq, experiments, exp_count, returned, existed, now>>
    /\ UNCHANGED <<authvars, inflight>>

\* The body of POST /experiments/ with no tags and no additional_data
PlainExperiment(experiment_type_id) ==
    [experiment_type_id |-> experiment_type_id, description |-> "d1", tags |-> <<>>,
     additional_data |-> EmptyMap]

\* POST /experiments/ : ExperimentService.create_experiment; any exception
\* (the ValueError of a missing tag, the foreign key rejecting a type id
\* that has no row) is answered 400
CreateExperimentFromHandler(experiment) ==
    /\ exp_count < MaxExperiments
    /\ LET out == create_experiment(experiment_types, tables, experiments, exp_count,
                                    experiment)
       IN  /\ experiments' = out.experiments
           /\ exp_count' = out.exp_count
    /\ UNCHANGED <<experiment_types, type_seq, tables, inserted, returned, existed, now>>

\* the handler of a request that has passed the role dependency
CreateExperimentFrom(experiment) == CreateExperimentFromHandler(experiment) /\ UNCHANGED <<authvars, inflight>>

CreateExperiment(experiment_type_id) == CreateExperimentFrom(PlainExperiment(experiment_type_id))

\* PUT /experiments/{uuid} : ExperimentService.update_experiment; 404 for an
\* unknown uuid, and the ValueError of a missing tag leaves the route
\* uncaught
UpdateExperiment(experiment_uuid, experiment_update) ==
    /\ experiments' =
          update_experiment(tables, experiments, experiment_uuid, experiment_update).experiments
    /\ UNCHANGED <<experiment_types, type_seq, exp_count, tables, inserted, returned,
                   existed, now>>
    /\ UNCHANGED <<authvars, inflight>>

\* POST /tags/ : 400 when the name is taken, else TagService.create_tag
CreateTagHandler(tag) ==
    /\ tables["tags"].seq < MaxTags
    /\ IF get_tag_by_name(tables, tag.name) # {}
       THEN UNCHANGED tables
       ELSE tables' = create_tag(tables, now, tag)
    /\ UNCHANGED <<experiment_types, type_seq, experiments, exp_count, inserted, returned,
                   existed, now>>

\* the handler of a request that has passed the role dependency
CreateTag(tag) == CreateTagHandler(tag) /\ UNCHANGED <<authvars, inflight>>

\* DELETE /tags/{tag_id} : TagService.delete_tag
DeleteTagHandler(tag_id) ==
    /\ tables' = delete_tag(tables, tag_id).tables
    /\ UNCHANGED <<experiment_types, type_seq, experiments, exp_count, inserted, returned,
                   existed, now>>

\* the handler of a request that has passed the role dependency
DeleteTag(tag_id) == DeleteTagHandler(tag_id) /\ UNCHANGED <<authvars, inflight>>

\* DELETE /experiments/{uuid} : ExperimentService.delete_experiment
DeleteExperimentHandler(experiment_uuid) ==
    /\ experiments' = experiments \ get_experiment(experiments, experiment_uuid)
    /\ UNCHANGED <<experiment_types, type_seq, exp_count, tables, inserted, returned,
                   existed, now>>

\* the handler of a request that has passed the role dependency
DeleteExperiment(experiment_uuid) == DeleteExperimentHandler(experiment_uuid) /\ UNCHANGED <<authvars, inflight>>

Init ==
    /\ experiment_types = {}
    /\ type_seq = 0
    /\ experiments = {}
    /\ exp_count = 0
    /\ tables = [n \in {"tags"} |-> NewTable(TagsTypes)]
    /\ inserted = [n \in {"tags"} |-> {}]
    /\ returned = [n \in {"tags"} |-> {}]
    /\ existed = {"tags"}
    /\ now = 0
    /\ validation_cache = EmptyMap
    /\ last_validation = [called |-> FALSE]
    /\ inflight = NoRequests

\* Every request, from the empty database; data rows are written with the
\* plain bodies only
Next ==
    \/ \E name \in TypeNames, table_name \in TableNames, s \in SchemaDefinitions :
          CreateExperimentType(name, table_name, s)
    \/ \E id \in 1..MaxTypes : DeleteExperimentType(id)
    \/ \E id \in 1..MaxTypes : CreateExperiment(id)
    \/ \E u \in Uuids : DeleteExperiment(u)
    \/ \E u \in Uuids : CreateExperimentData(u, "p1", EmptyMap)
    \/ \E u \in Uuids, id \in 1..MaxRowId :
          UpdateExperimentData(u, id, [participant_id |-> NoneValue, data |-> [x |-> "v2"]])
    \/ \E u \in Uuids, id \in 1..MaxRowId : DeleteExperimentData(u, id)

Spec == Init /\ [][Next]_vars

\* The data requests of the experiments of one experiment type: the state
\* after POST /experiment-types/ {n1, table} and two
\* POST /experiments/ {experiment_type_id: 1}
DataTables == {"t1", "tags"}
DataUuids == {UuidNames[1], UuidNames[2]}
InitData ==
    \E table_name \in DataTables :
       LET made == create_experiment_type({}, 0, [n \in {"tags"} |-> NewTable(TagsTypes)],
                                          "n1", table_name, [x |-> Bare("STRING")])
       IN  /\ experiment_types = made.experiment_types
           /\ type_seq = made.type_seq
           /\ tables = made.tables
           /\ existed = DOMAIN made.tables
           /\ inserted = [n \in DOMAIN made.tables |-> {}]
           /\ returned = [n \in DOMAIN made.tables |-> {}]
           /\ experiments = {[uuid |-> u, experiment_type_id |-> 1, description |-> "d1",
                               tags |-> <<>>, additional_data |-> EmptyMap] : u \in DataUuids}
           /\ exp_count = 2
           /\ now = 0
           /\ validation_cache = EmptyMap
           /\ last_validation = [called |-> FALSE]
           /\ inflight = NoRequests

NextData ==
    \/ \E u \in DataUuids, data \in InsertPayloads :
          CreateExperimentData(u, "p1", data)
    \/ \E u \in DataUuids, id \in 1..MaxRowId, body \in UpdateBodies :
          UpdateExperimentData(u, id, body)
    \/ \E u \in DataUuids, id \in 1..MaxRowId : DeleteExperimentData(u, id)

SpecData == InitData /\ [][NextData]_vars

\* schema_definition values of the experiment-type requests: valid ones in
\* both forms and letter cases, and ones with a reserved name, an
\* unsupported type or an object without "type"
RawSchemas ==
    {EmptyMap, [x |-> Bare("STRING")], [x |-> Bare("integer")],
     [x |-> Structured("float", FALSE)], [x |-> Bare("TEXT"), y |-> Structured("Json", TRUE)],
     [x |-> Bare("Boolean"), y |-> Structured("datetime", FALSE)],
     [x |-> Bare("BLOB")], [x |-> Structured("blob", TRUE)], [x |-> Untyped(TRUE)],
     [ID |-> Bare("INTEGER")], [x |-> Bare("STRING"), created_at |-> Structured("DATETIME", TRUE)],
     [experiment_uuid |-> Bare("STRING")]}

TypeUpdateBodies ==
    {[name |-> n] : n \in TypeNames}
    \cup {[schema_definition |-> v] : v \in RawSchemas}
    \cup {[name |-> n, schema_definition |-> v] : n \in TypeNames, v \in {[x |-> Bare("TEXT")]}}

\* The experiment-type requests, from the empty database
NextTypes ==
    \/ \E name \in TypeNames, table_name \in DataTables, v \in RawSchemas :
          CreateExperimentType(name, table_name, v)
    \/ \E id \in 1..MaxTypes, body \in TypeUpdateBodies : UpdateExperimentType(id, body)
    \/ \E id \in 1..MaxTypes : DeleteExperimentType(id)

SpecTypes == Init /\ [][NextTypes]_vars

\* -------------------------------------------------------------------- auth
\* Role: the hierarchy values; from_string gives the role named by a text in
\* any letter case, or no role; str(role) is the lower-case name
Role == [EXPERIMENTEE |-> 1, RESEARCHER |-> 2, ADMIN |-> 3, TEST |-> 4]
NoRole == "none"
from_string(role_str) == IF Upper(role_str) \in DOMAIN Role THEN Upper(role_str) ELSE NoRole
can_access(role, required_role) == Role[role] >= Role[required_role]
RoleStr(required_role) == IF required_role = NoRole THEN "none" ELSE Lower(required_role)

\* API keys as the first eight characters, the middle and the last eight
\* characters: K1 and K2 differ in the middle only
ApiKey(head, body, tail) == [head |-> head, body |-> body, tail |-> tail]
K1 == ApiKey("aaaaaaaa", "1", "zzzzzzzz")
K2 == ApiKey("aaaaaaaa", "2", "zzzzzzzz")
ApiKeys == {K1, K2}

\* _get_cache_key: f"{key[:8]}...{key[-8:]}:{role_str}"
get_cache_key(key, required_role) == <<key.head, key.tail, RoleStr(required_role)>>

\* What _make_verify_request can do: time out, raise for a status that is
\* not 200, raise anything else, or return the service's answer
VerifyResponses(key) ==
    {[kind |-> "response", valid |-> FALSE, key_id |-> NoneValue, roles |-> <<>>,
      meta_role |-> NoneValue]}
    \cup {[kind |-> "response", valid |-> TRUE, key_id |-> key.body, roles |-> r,
           meta_role |-> m] :
             r \in {<<>>, <<"experimentee">>, <<"researcher">>, <<"owner", "Admin">>},
             m \in {NoneValue}}
    \cup {[kind |-> "response", valid |-> TRUE, key_id |-> key.body, roles |-> <<"owner">>,
           meta_role |-> "Researcher"]}
VerifyOutcomes(key) ==
    {[kind |-> "TimeoutException"], [kind |-> "HTTPStatusError"], [kind |-> "Exception"]}
    \cup VerifyResponses(key)

\* _extract_role: the first entry of roles that names a role, else the role
\* of meta, else None
extract_role(unkey_response) ==
    LET named == {i \in 1..Len(unkey_response.roles) :
                     from_string(unkey_response.roles[i]) # NoRole}
    IN  IF named # {}
        THEN from_string(unkey_response.roles[CHOOSE i \in named : \A j \in named : i <= j])
        ELSE IF unkey_response.meta_role # NoneValue
        THEN from_string(unkey_response.meta_role)
        ELSE NoRole

\* _build_result
build_result(unkey_response) ==
    IF ~unkey_response.valid
    THEN [valid |-> FALSE, key_id |-> NoneValue, role |-> NoRole,
          error |-> "Invalid API key or insufficient permissions"]
    ELSE [valid |-> TRUE, key_id |-> unkey_response.key_id,
          role |-> extract_role(unkey_response), error |-> NoneValue]

\* The result validate_key builds from one outcome of the request
OutcomeResult(outcome) ==
    CASE outcome.kind = "response" -> build_result(outcome)
      [] outcome.kind = "TimeoutException" ->
            [valid |-> FALSE, key_id |-> NoneValue, role |-> NoRole,
             error |-> "Timeout connecting to Unkey API"]
      [] outcome.kind = "HTTPStatusError" ->
            [valid |-> FALSE, key_id |-> NoneValue, role |-> NoRole, error |-> "Unkey API error"]
      [] OTHER ->
            [valid |-> FALSE, key_id |-> NoneValue, role |-> NoRole, error |-> "Validation error"]

\* cache_ttl_seconds
cache_ttl_seconds == 1

\* is_expired: time.time() > expires_at
is_expired(cached, time) == time > cached.expires_at

\* _get_cached_result: the result of an entry that has not expired; an
\* expired entry is deleted
get_cached_result(cache, time, cache_key) ==
    IF cache_key \notin DOMAIN cache THEN [hit |-> FALSE, cache |-> cache]
    ELSE IF ~is_expired(cache[cache_key], time)
    THEN [hit |-> TRUE, result |-> cache[cache_key].result, cache |-> cache]
    ELSE [hit |-> FALSE, cache |-> [k \in DOMAIN cache \ {cache_key} |-> cache[k]]]

\* a _cache_result that stores every result
cache_result_always(cache, time, cache_key, result) ==
    (cache_key :> [result |-> result, expires_at |-> time + cache_ttl_seconds]) @@ cache

\* _cache_result: only a valid result is stored
cache_result(cache, time, cache_key, result) ==
    IF result.valid
    THEN (cache_key :> [result |-> result, expires_at |-> time + cache_ttl_seconds]) @@ cache
    ELSE cache

\* validate_key: a cached result is returned without a request; else the
\* request is made, its result built and cached; an exception of the
\* request gives an invalid result that is not cached
validate_key(cache, time, key, required_role, outcome) ==
    LET cache_key == get_cache_key(key, required_role)
        cached == get_cached_result(cache, time, cache_key)
    IN  IF cached.hit
        THEN [result |-> cached.result, cache |-> cached.cache, contacted |-> FALSE]
        ELSE IF outcome.kind = "response"
        THEN [result |-> OutcomeResult(outcome),
              cache |-> cache_result(cached.cache, time, cache_key, OutcomeResult(outcome)),
              contacted |-> TRUE]
        ELSE [result |-> OutcomeResult(outcome), cache |-> cached.cache, contacted |-> TRUE]

\* What last_validation keeps of a validate_key call
Validation(key, required_role, outcome, out) ==
    [called |-> TRUE, key |-> key, required_role |-> required_role, outcome |-> outcome.kind,
     valid |-> out.result.valid, contacted |-> out.contacted]

\* A request with no Authorization header
NoKey == ApiKey("", "", "")
Credentials == ApiKeys \cup {NoKey}

\* require_role(minimum_role), the dependency of @auth.role: no credentials,
\* an invalid result, a result without role and a role below the minimum
\* are refused (401 or 403); else the key id and the role are returned
check_role_authorization(cache, time, credentials, minimum_role, outcome) ==
    IF credentials = NoKey
    THEN [status |-> 401, called |-> FALSE, cache |-> cache]
    ELSE LET out == validate_key(cache, time, credentials, minimum_role, outcome)
             status == IF ~out.result.valid THEN 401
                       ELSE IF out.result.role = NoRole THEN 403
                       ELSE IF ~can_access(out.result.role, minimum_role) THEN 403
                       ELSE 200
         IN  [status |-> status, called |-> TRUE, cache |-> out.cache,
              key_id |-> out.result.key_id, role |-> out.result.role,
              validation |-> Validation(credentials, minimum_role, outcome, out)]

\* A route decorated with @auth.role(minimum_role): the dependency runs
\* first; when it refuses, the handler is not called
RoleDependency(credentials, minimum_role, outcome) ==
    LET auth == check_role_authorization(validation_cache, now, credentials, minimum_role,
                                         outcome)
    IN  /\ validation_cache' = auth.cache
        /\ last_validation' = IF auth.called THEN auth.validation ELSE last_validation
        /\ UNCHANGED inflight

Authorized(credentials, minimum_role, outcome) ==
    check_role_authorization(validation_cache, now, credentials, minimum_role,
                             outcome).status = 200

\* validate_key called on its own
ValidateKey(key, required_role, outcome) ==
    LET out == validate_key(validation_cache, now, key, required_role, outcome) IN
    /\ validation_cache' = out.cache
    /\ last_validation' = Validation(key, required_role, outcome, out)
    /\ UNCHANGED <<datavars, now, inflight>>

\* clear_cache
ClearCache ==
    /\ validation_cache' = EmptyMap
    /\ UNCHANGED <<datavars, now, last_validation, inflight>>

\* time passes
Tick ==
    /\ now < MaxClock
    /\ now' = now + 1
    /\ UNCHANGED <<datavars, authvars, inflight>>

\* The calls of the key validation client
NextCache ==
    \/ \E key \in ApiKeys, required_role \in {NoRole, "RESEARCHER"} :
          \E outcome \in VerifyOutcomes(key) : ValidateKey(key, required_role, outcome)
    \/ ClearCache
    \/ Tick

SpecCache == Init /\ [][NextCache]_vars

\* The requests as they arrive, with their credentials.  The routes of
\* experiment types and of experiment data declare no auth dependency: the
\* Authorization header is not looked at and the handler runs.
PostExperimentType(credentials, name, table_name, schema_definition) ==
    CreateExperimentType(name, table_name, schema_definition)

DeleteExperimentTypeRequest(credentials, experiment_type_id) ==
    DeleteExperimentType(experiment_type_id)

PostExperimentData(credentials, experiment_uuid, participant_id, data) ==
    CreateExperimentData(experiment_uuid, participant_id, data)

\* The routes of tags and experiments are decorated with
\* @auth.role(Role.RESEARCHER)
PostTag(credentials, outcome, tag) ==
    /\ RoleDependency(credentials, "RESEARCHER", outcome)
    /\ IF Authorized(credentials, "RESEARCHER", outcome)
       THEN CreateTagHandler(tag)
       ELSE UNCHANGED <<datavars, now>>

PostExperiment(credentials, outcome, experiment) ==
    /\ RoleDependency(credentials, "RESEARCHER", outcome)
    /\ IF Authorized(credentials, "RESEARCHER", outcome)
       THEN CreateExperimentFromHandler(experiment)
       ELSE UNCHANGED <<datavars, now>>

\* The requests of one client: without Authorization header or with the key
\* K1, about which the service answers in one of these ways
AuthCredentials == {NoKey, K1}
AuthOutcomes(credentials) ==
    {o \in VerifyOutcomes(credentials) :
        \/ o.kind = "TimeoutException"
        \/ o.kind = "response" /\ ~o.valid
        \/ o.kind = "response" /\ o.valid /\ o.roles \in {<<"experimentee">>, <<"researcher">>}}

NextAuth ==
    \/ \E credentials \in AuthCredentials :
          PostExperimentType(credentials, "n1", "t1", EmptyMap)
    \/ \E credentials \in AuthCredentials : DeleteExperimentTypeRequest(credentials, 1)
    \/ \E credentials \in AuthCredentials : \E outcome \in AuthOutcomes(credentials) :
          PostTag(credentials, outcome, [name |-> "g1", description |-> "NULL"])
    \/ \E credentials \in AuthCredentials : \E outcome \in AuthOutcomes(credentials) :
          PostExperiment(credentials, outcome, PlainExperiment(1))
    \/ \E credentials \in AuthCredentials :
          PostExperimentData(credentials, UuidNames[1], "p1", EmptyMap)
    \/ Tick

SpecAuth == Init /\ [][NextAuth]_vars

\* Tag and experiment requests on one experiment type
TagNames == {"g1", "g2"}
TagLists == {<<>>, <<"g1">>, <<"g1", "g2">>, <<"g2", "g1">>}
TagBodies == {[name |-> n, description |-> "NULL"] : n \in TagNames}
ExperimentBodies ==
    {[experiment_type_id |-> 1, description |-> "d1", tags |-> l, additional_data |-> EmptyMap] :
        l \in TagLists}
ExperimentUpdates ==
    {[description |-> "d2"]}
    \cup {[tags |-> l] : l \in TagLists}
    \cup {[description |-> "d2", tags |-> l, additional_data |-> [k |-> "v1"]] :
            l \in {<<"g1">>, <<"g2", "g1">>}}

NextTags ==
    \/ CreateExperimentType("n1", "t1", EmptyMap)
    \/ \E tag \in TagBodies : CreateTag(tag)
    \/ \E id \in 1..MaxTags : DeleteTag(id)
    \/ \E experiment \in ExperimentBodies : CreateExperimentFrom(experiment)
    \/ \E u \in Uuids, experiment_update \in ExperimentUpdates :
          UpdateExperiment(u, experiment_update)
    \/ \E u \in Uuids : DeleteExperiment(u)

SpecTags == Init /\ [][NextTags]_vars

\* The tag search over the data of one experiment type: the state after
\* POST /tags/ g1 and g2, POST /experiment-types/ {n1, t1}, two
\* POST /experiments/ with tags, and SEARCH_ROWS_LIMIT - 1 data rows posted
\* to the first experiment
SearchTags == {<<"g1">>, <<"g1", "g2">>}
InitSearch ==
    LET tagged == create_tag(create_tag([n \in {"tags"} |-> NewTable(TagsTypes)], 0,
                                        [name |-> "g1", description |-> "NULL"]),
                             0, [name |-> "g2", description |-> "NULL"])
        made == create_experiment_type({}, 0, tagged, "n1", "t1", [x |-> Bare("STRING")])
        table == made.tables["t1"]
        posted == 1..(SEARCH_ROWS_LIMIT - 1)
        rows == {NewRow([table EXCEPT !.seq = i - 1],
                        [experiment_uuid |-> UuidNames[1], participant_id |-> "p1"], 0) :
                    i \in posted}
    IN  /\ experiment_types = made.experiment_types
        /\ type_seq = made.type_seq
        /\ tables = [made.tables EXCEPT !["t1"].rows = rows,
                                        !["t1"].seq = SEARCH_ROWS_LIMIT - 1]
        /\ existed = DOMAIN made.tables
        /\ inserted = [n \in DOMAIN made.tables |->
                          IF n = "t1" THEN {<<i, UuidNames[1]>> : i \in posted} ELSE {}]
        /\ returned = [n \in DOMAIN made.tables |-> IF n = "t1" THEN posted ELSE {}]
        /\ experiments = {[uuid |-> UuidNames[1], experiment_type_id |-> 1,
                            description |-> "d1", tags |-> <<"g1">>,
                            additional_data |-> EmptyMap],
                           [uuid |-> UuidNames[2], experiment_type_id |-> 1,
                            description |-> "d1", tags |-> <<"g1", "g2">>,
                            additional_data |-> EmptyMap]}
        /\ exp_count = 2
        /\ now = 0
        /\ validation_cache = EmptyMap
        /\ last_validation = [called |-> FALSE]
        /\ inflight = NoRequests

NextSearch ==
    \/ \E u \in DataUuids :
          CreateExperimentDataWithin(SEARCH_ROWS_LIMIT + MaxClock, u, "p1", EmptyMap)
    \/ \E u \in DataUuids, id \in {1, SEARCH_ROWS_LIMIT} : DeleteExperimentData(u, id)
    \/ \E u \in DataUuids, l \in SearchTags \cup {<<>>} : UpdateExperiment(u, [tags |-> l])

SpecSearch == InitSearch /\ [][NextSearch]_vars

\* The data requests of one experiment type when two requests can be served
\* within one reading of the clock
NextPages ==
    \/ \E elapsed \in {0, 1}, u \in DataUuids :
          CreateExperimentDataAfter(elapsed, MaxRowId, u, "p1", EmptyMap)
    \/ \E u \in DataUuids, id \in 1..MaxRowId :
          UpdateExperimentData(u, id, [participant_id |-> NoneValue, data |-> [x |-> "v2"]])
    \/ \E u \in DataUuids, id \in 1..MaxRowId : DeleteExperimentData(u, id)

SpecPages == InitData /\ [][NextPages]_vars

\* --------------------------------------- concurrent experiment-type creates
\* POST /experiment-types/ served in the steps between which another
\* request can run (each await reaches the database on the request's own
\* session).  First step: the name check of the route; 400 when a committed
\* row has the name.
StartCreateType(r, name, table_name, schema_definition) ==
    /\ inflight[r] = Idle
    /\ type_seq < MaxTypes
    /\ inflight' = [inflight EXCEPT ![r] =
          [pc |-> IF get_experiment_type_by_name(experiment_types, name) # {}
                  THEN "done" ELSE "checked",
           name |-> name, table_name |-> table_name,
           schema_definition |-> schema_definition, id |-> 0,
           outcome |-> IF get_experiment_type_by_name(experiment_types, name) # {}
                       THEN "400 name exists" ELSE "pending"]]
    /\ UNCHANGED <<datavars, now, authvars>>

\* Second step: db.add + commit of the row.  The unique constraints are
\* checked against the rows committed by now; a rejected INSERT has still
\* consumed an id, and its IntegrityError is answered 400.
CommitTypeRow(r) ==
    /\ inflight[r].pc = "checked"
    /\ LET req == inflight[r] IN
       IF UniqueViolation(experiment_types, req.name, req.table_name)
       THEN /\ type_seq' = type_seq + 1
            /\ inflight' = [inflight EXCEPT ![r].pc = "done",
                                            ![r].outcome = "400 IntegrityError"]
            /\ UNCHANGED experiment_types
       ELSE /\ type_seq' = type_seq + 1
            /\ experiment_types' = experiment_types \cup
                  {[id |-> type_seq + 1, name |-> req.name, table_name |-> req.table_name,
                    schema_definition |-> req.schema_definition]}
            /\ inflight' = [inflight EXCEPT ![r].pc = "committed", ![r].id = type_seq + 1]
    /\ UNCHANGED <<experiments, exp_count, tables, inserted, returned, existed, now, authvars>>

\* Third step: create_experiment_table with the row's table_name and
\* schema, and on False the delete + commit of the row, which raises when
\* the failed CREATE TABLE left the transaction aborted.
CreateTypeTable(r) ==
    /\ inflight[r].pc = "committed"
    /\ LET req == inflight[r]
           made == create_experiment_table(tables, req.table_name, req.schema_definition)
       IN  /\ tables' = made.tables
           /\ existed' = existed \cup DOMAIN made.tables
           /\ inserted' = InsertedAfter(inserted, made.tables)
           /\ returned' = InsertedAfter(returned, made.tables)
           /\ experiment_types' =
                 IF made.ok \/ made.aborted THEN experiment_types
                 ELSE {t \in experiment_types : t.id # req.id}
           /\ inflight' = [inflight EXCEPT ![r].pc = "done",
                 ![r].outcome = IF made.ok THEN "200 Created"
                                ELSE IF made.aborted THEN "400 DBAPIError"
                                ELSE "400 RuntimeError"]
    /\ UNCHANGED <<type_seq, experiments, exp_count, now, authvars>>

\* The response is sent and the slot takes the next request
FinishCreateType(r) ==
    /\ inflight[r].pc = "done"
    /\ inflight' = [inflight EXCEPT ![r] = Idle]
    /\ UNCHANGED <<datavars, now, authvars>>

\* two plain names and a name no table can have
RaceTableNames == {"t1", "t2", ""}
NextTypeRace ==
    \/ \E r \in Requests, name \in TypeNames, table_name \in RaceTableNames :
          StartCreateType(r, name, table_name, EmptyMap)
    \/ \E r \in Requests : CommitTypeRow(r)
    \/ \E r \in Requests : CreateTypeTable(r)
    \/ \E r \in Requests : FinishCreateType(r)

SpecTypeRace == Init /\ [][NextTypeRace]_vars

\* ------------------------------------------- concurrent updates of one row
\* PUT /experiment-data/{experiment_id}/data/row/{row_id} served in steps.
\* First step: the experiment is loaded, the table reflected, valid_data
\* filtered and updated_at read from the clock.
PrepareUpdateRow(r, experiment_id, row_id, body) ==
    /\ inflight[r] = Idle
    /\ get_experiment(experiments, experiment_id) # {}
    /\ LET experiment == CHOOSE e \in get_experiment(experiments, experiment_id) : TRUE
           table_name == TableNameOf(experiment_types, experiment)
           refl == get_table_reflected(tables, table_name)
           valid_data == ValidUpdateData(refl.table, UpdateData(body))
       IN  /\ refl.found
           /\ inflight' = [inflight EXCEPT ![r] =
                 IF Keys(valid_data) = {}
                 THEN [pc |-> "done", outcome |-> "False", table_name |-> table_name,
                       row_id |-> row_id, experiment_uuid |-> experiment_id,
                       values |-> EmptyMap, commit_no |-> 0, before |-> {}]
                 ELSE [pc |-> "prepared", outcome |-> "pending", table_name |-> table_name,
                       row_id |-> row_id, experiment_uuid |-> experiment_id,
                       values |-> Merge(valid_data, [updated_at |-> now]),
                       commit_no |-> 0, before |-> {}]]
    /\ UNCHANGED <<datavars, now, authvars>>

\* the number of updates committed in this round
Committed == Cardinality({q \in Requests : inflight[q].pc = "done" /\ inflight[q].outcome = "True"})

\* Second step: db.execute(query) and commit.  The statement waits for the
\* row lock and then acts on the committed row.  before and commit_no keep
\* what the row was and the place in the commit order.
CommitUpdateRow(r) ==
    /\ inflight[r].pc = "prepared"
    /\ LET req == inflight[r]
           table == tables[req.table_name]
           hit == RowScope(table, req.row_id, req.experiment_uuid)
       IN  /\ tables' = [tables EXCEPT ![req.table_name].rows =
                            (table.rows \ hit) \cup {UpdateStatement(q, req.values) : q \in hit}]
           /\ inflight' = [inflight EXCEPT ![r].pc = "done",
                 ![r].outcome = IF hit # {} THEN "True" ELSE "False",
                 ![r].commit_no = Committed + 1,
                 ![r].before = hit]
    /\ UNCHANGED <<experiment_types, type_seq, experiments, exp_count, inserted, returned,
                   existed, now, authvars>>

\* Both responses are sent and the slots take the next requests
FinishUpdates ==
    /\ \A r \in Requests : inflight[r].pc = "done"
    /\ inflight' = NoRequests
    /\ UNCHANGED <<datavars, now, authvars>>

\* Table t1 of the experiments A and B with one row posted to A
InitUpdateRace ==
    LET made == create_experiment_type({}, 0, [n \in {"tags"} |-> NewTable(TagsTypes)],
                                       "n1", "t1", [x |-> Bare("STRING")])
        posted == insert_data_row(made.tables, 0, "t1", UuidNames[1], "p1", [x |-> "v1"])
    IN  /\ experiment_types = made.experiment_types
        /\ type_seq = made.type_seq
        /\ tables = posted.tables
        /\ existed = DOMAIN made.tables
        /\ inserted = [n \in DOMAIN made.tables |->
                          IF n = "t1" THEN {<<posted.id, UuidNames[1]>>} ELSE {}]
        /\ returned = [n \in DOMAIN made.tables |-> IF n = "t1" THEN {posted.id} ELSE {}]
        /\ experiments = {[uuid |-> u, experiment_type_id |-> 1, description |-> "d1",
                            tags |-> <<>>, additional_data |-> EmptyMap] : u \in DataUuids}
        /\ exp_count = 2
        /\ now = 0
        /\ validation_cache = EmptyMap
        /\ last_validation = [called |-> FALSE]
        /\ inflight = NoRequests

RaceUpdateBodies ==
    {[participant_id |-> NoneValue, data |-> [x |-> "v2"]],
     [participant_id |-> NoneValue, data |-> [x |-> "v3"]],
     [participant_id |-> "p2", data |-> EmptyMap],
     [participant_id |-> "p2", data |-> [x |-> "v2", bogus |-> "v2"]],
     [participant_id |-> NoneValue, data |-> [id |-> MaxRowId + 1]]}

NextUpdateRace ==
    \/ \E r \in Requests, u \in DataUuids, body \in RaceUpdateBodies :
          PrepareUpdateRow(r, u, 1, body)
    \/ \E r \in Requests : CommitUpdateRow(r)
    \/ FinishUpdates
    \/ Tick

SpecUpdateRace == InitUpdateRace /\ [][NextUpdateRace]_vars

\* ------------------------------- experiment writes concurrent with tag deletes
\* POST /experiments/ served in steps.  First step: the loop that looks up
\* every tag name; the ValueError of a missing name ends the request (400).
CheckExperimentTags(r, experiment) ==
    /\ inflight[r] = Idle
    /\ exp_count < MaxExperiments
    /\ FirstMissingTag(tables, experiment.tags) = {}
    /\ inflight' = [inflight EXCEPT ![r] = [pc |-> "tags checked", experiment |-> experiment]]
    /\ UNCHANGED <<datavars, now, authvars>>

\* Second step: db.add + commit of the experiment row
CommitExperiment(r) ==
    /\ inflight[r].pc = "tags checked"
    /\ LET out == add_experiment(experiment_types, experiments, exp_count,
                                 inflight[r].experiment)
       IN  /\ experiments' = out.experiments
           /\ exp_count' = out.exp_count
    /\ inflight' = [inflight EXCEPT ![r] = Idle]
    /\ UNCHANGED <<experiment_types, type_seq, tables, inserted, returned, existed, now,
                   authvars>>

NextTagRace ==
    \/ CreateExperimentType("n1", "t1", EmptyMap)
    \/ \E tag \in TagBodies : CreateTag(tag)
    \/ \E id \in 1..MaxTags : DeleteTag(id)
    \/ \E r \in Requests, experiment \in ExperimentBodies : CheckExperimentTags(r, experiment)
    \/ \E r \in Requests : CommitExperiment(r)
    \/ \E u \in Uuids : DeleteExperiment(u)

SpecTagRace == Init /\ [][NextTagRace]_vars

\* The experiment-type requests with schemas the request validator accepts
\* and table names that name no static table
SchemaBodies ==
    {EmptyMap, [x |-> Bare("STRING")], [x |-> Bare("STRING"), y |-> Bare("TEXT")]}
NextSchema ==
    \/ \E name \in TypeNames, table_name \in {"t1", "t2"}, v \in SchemaBodies :
          CreateExperimentType(name, table_name, v)
    \/ \E id \in 1..MaxTypes, v \in SchemaBodies :
          UpdateExperimentType(id, [schema_definition |-> v])
    \/ \E id \in 1..MaxTypes : DeleteExperimentType(id)

SpecSchema == Init /\ [][NextSchema]_vars

\* ------------------------------------------------------------ properties
\* Two experiments of one experiment type, which share its table
SameTable(a, b) == a.uuid # b.uuid /\ a.experiment_type_id = b.experiment_type_id
DataTableOf(e) == TableNameOf(experiment_types, e)
\* ids of the rows inserted under an experiment and not deleted since
InsertedUnder(table_name, experiment_uuid) ==
    IF table_name \in DOMAIN inserted
    THEN {p[1] : p \in {q \in inserted[table_name] : q[2] = experiment_uuid}}
    ELSE {}
Min(i, j) == IF i < j THEN i ELSE j
Max(i, j) == IF i > j THEN i ELSE j

\* arguments of the queries
BigLimit == MaxRowId + 1
QueryParticipants == {NoParticipant, "p1"}
QueryFilters == {EmptyMap, [x |-> "v1"], [bogus |-> "v1"], [experiment_uuid |-> UuidNames[2]]}
QueryTimes == {NoTime, 1}
QueryLimits == {1, BigLimit}
QueryOffsets == {0, 1}

\* C1: for experiments A and B of one experiment type, get_data_rows under
\* A's uuid returns rows of A only, whatever participant, custom filter, date
\* range and page are asked for; with no other filter and a limit that covers
\* the table it returns exactly the rows inserted under A and not deleted.
C1_RowsOfOneExperiment ==
    \A a \in experiments, b \in experiments :
       SameTable(a, b) =>
          LET table_name == DataTableOf(a)
              mine == InsertedUnder(table_name, a.uuid)
          IN  /\ \A p \in QueryParticipants, f \in QueryFilters, ca \in QueryTimes,
                    cb \in QueryTimes, l \in QueryLimits, o \in QueryOffsets :
                    \A rows \in get_data_rows(tables, table_name, a.uuid, p, f, ca, cb,
                                              l, o).lists :
                       \A i \in 1..Len(rows) : rows[i].experiment_uuid = a.uuid
              /\ \A rows \in get_data_rows(tables, table_name, a.uuid, NoParticipant,
                                           EmptyMap, NoTime, NoTime, BigLimit, 0).lists :
                    /\ {rows[i].id : i \in 1..Len(rows)} = mine
                    /\ Len(rows) = Cardinality(mine)

\* the shared table holds a row of A and a row of B
C1_Witness ==
    \E a \in experiments, b \in experiments :
       /\ SameTable(a, b)
       /\ TableExists(tables, DataTableOf(a))
       /\ \E r \in tables[DataTableOf(a)].rows : r.experiment_uuid = a.uuid
       /\ \E r \in tables[DataTableOf(a)].rows : r.experiment_uuid = b.uuid
       /\ get_data_rows(tables, DataTableOf(a), a.uuid, NoParticipant, EmptyMap,
                        NoTime, NoTime, BigLimit, 0).lists # {}

\* C2: a row inserted under A into the table A shares with B, and not
\* deleted since, is not found by get_data_row_by_id under B's uuid (None)
\* and is the row get_data_row_by_id returns under A's uuid.
C2_RowByIdScoped ==
    \A a \in experiments, b \in experiments :
       SameTable(a, b) =>
          \A row_id \in InsertedUnder(DataTableOf(a), a.uuid) :
             LET table_name == DataTableOf(a)
                 foreign == get_data_row_by_id(tables, table_name, row_id, b.uuid)
                 own == get_data_row_by_id(tables, table_name, row_id, a.uuid)
             IN  /\ foreign.kind = "row" /\ foreign.row = {}
                 /\ own.kind = "row"
                 /\ own.row = {r \in tables[table_name].rows : r.id = row_id}
                 /\ Cardinality(own.row) = 1
                 /\ \A r \in own.row : r.experiment_uuid = a.uuid

\* a row inserted under A whose id B asks for
C2_Witness ==
    \E a \in experiments, b \in experiments :
       /\ SameTable(a, b)
       /\ \E row_id \in InsertedUnder(DataTableOf(a), a.uuid) :
             /\ get_data_row_by_id(tables, DataTableOf(a), row_id, b.uuid).row = {}
             /\ get_data_row_by_id(tables, DataTableOf(a), row_id, a.uuid).row # {}

\* C3: update_data_row and delete_data_row under B's uuid with the id of a
\* row of A return False and leave the table as it is, for every payload; and
\* with any row id they leave the rows of A as they are.
C3_ForeignWritesRejected ==
    \A a \in experiments, b \in experiments :
       SameTable(a, b) =>
          LET table_name == DataTableOf(a)
              RowsOfA(tbls) == {r \in tbls[table_name].rows : r.experiment_uuid = a.uuid}
          IN  /\ \A row_id \in InsertedUnder(table_name, a.uuid) :
                    /\ \A body \in UpdateBodies :
                          LET out == update_data_row(tables, now + 1, table_name, row_id,
                                                     UpdateData(body), b.uuid)
                          IN  out.kind = "False" /\ out.tables = tables
                    /\ LET out == delete_data_row(tables, table_name, row_id, b.uuid)
                       IN  out.kind = "False" /\ out.tables = tables
              /\ InsertedUnder(table_name, a.uuid) # {} =>
                    \A row_id \in 1..MaxRowId :
                       /\ \A body \in UpdateBodies :
                             RowsOfA(update_data_row(tables, now + 1, table_name, row_id,
                                         UpdateData(body), b.uuid).tables) = RowsOfA(tables)
                       /\ RowsOfA(delete_data_row(tables, table_name, row_id,
                                                  b.uuid).tables) = RowsOfA(tables)

\* a row of A that A's own update reaches and B's update does not
C3_Witness ==
    \E a \in experiments, b \in experiments :
       /\ SameTable(a, b)
       /\ \E row_id \in InsertedUnder(DataTableOf(a), a.uuid) :
             /\ update_data_row(tables, now + 1, DataTableOf(a), row_id, [x |-> "v2"],
                                a.uuid).kind = "True"
             /\ update_data_row(tables, now + 1, DataTableOf(a), row_id, [x |-> "v2"],
                                b.uuid).kind = "False"
             /\ delete_data_row(tables, DataTableOf(a), row_id, b.uuid).kind = "False"

\* Data maps a caller of insert_data_row can pass: the request bodies, and
\* maps that hold datetime objects
ServicePayloads ==
    InsertPayloads \cup {[created_at |-> PastDateTime, updated_at |-> FutureDateTime]}
\* those of them whose values the driver can bind
BindablePayloads == {d \in ServicePayloads : ~BindError(d)}

\* the table has the five columns create_experiment_table gives every table
IsDynamicTable(tbls, table_name) ==
    TableExists(tbls, table_name) /\ FixedColumns \subseteq tbls[table_name].columns

\* C4: insert_data_row with a data map that has a key the reflected table
\* has no column for raises ValueError (it is not turned into None), the
\* columns it lists are exactly those keys, experiment_uuid and
\* participant_id are not among them, and no row is added.
C4_UnknownColumnsRejected ==
    \A e \in experiments, p \in Participants, data \in InsertPayloads :
       LET table_name == DataTableOf(e) IN
       (TableExists(tables, table_name)
          /\ \E k \in Keys(data) : k \notin tables[table_name].columns) =>
             LET out == insert_data_row(tables, now + 1, table_name, e.uuid, p, data)
                 offending == {k \in Keys(data) : k \notin tables[table_name].columns}
             IN  /\ out.kind = "ValueError"
                 /\ out.tables = tables
                 /\ out.missing_columns \cap {"experiment_uuid", "participant_id"} = {}
                 /\ out.missing_columns = offending

\* C5: insert_data_row with a data map whose keys are columns of the dynamic
\* table (id, created_at and updated_at among them) succeeds and returns an
\* id no earlier insert into the table returned; the rows of a table have
\* pairwise distinct ids.
C5_InsertReturnsFreshId ==
    \A e \in experiments :
       LET table_name == DataTableOf(e) IN
       IsDynamicTable(tables, table_name) =>
          /\ \A p \in Participants, data \in BindablePayloads :
                Keys(data) \subseteq tables[table_name].columns =>
                   LET out == insert_data_row(tables, now + 1, table_name, e.uuid, p, data)
                   IN  out.kind = "id" /\ out.id \notin returned[table_name]
          /\ \A r1 \in tables[table_name].rows, r2 \in tables[table_name].rows :
                r1.id = r2.id => r1 = r2

\* C6: update_data_row leaves id, experiment_uuid and created_at of the row
\* as they were, whatever the payload holds for them, and sets updated_at to
\* a time later than the one the row had; for the rows in the table and for
\* a row insert_data_row has just written.
C6_UpdateKeepsIdentity ==
    \A e \in experiments :
       LET table_name == DataTableOf(e)
           Updated(tbls, row_id, clock) ==
              \A body \in UpdateBodies :
                 LET out == update_data_row(tbls, clock, table_name, row_id,
                                            UpdateData(body), e.uuid)
                     before == CHOOSE r \in tbls[table_name].rows : r.id = row_id
                 IN  out.kind = "True" =>
                        \E after \in out.tables[table_name].rows :
                           /\ after.id = before.id
                           /\ after.experiment_uuid = before.experiment_uuid
                           /\ after.created_at = before.created_at
                           /\ after.updated_at > before.updated_at
                           /\ out.tables[table_name].rows \ {after} =
                                 tbls[table_name].rows \ {before}
       IN  IsDynamicTable(tables, table_name) =>
              /\ \A r \in tables[table_name].rows :
                    r.experiment_uuid = e.uuid => Updated(tables, r.id, now + 1)
              /\ \A data \in ServicePayloads :
                    LET ins == insert_data_row(tables, now + 1, table_name, e.uuid, "p1", data)
                    IN  ins.kind = "id" => Updated(ins.tables, ins.id, now + 2)

\* C7: count_data_rows under an experiment's uuid is the number of rows
\* get_data_rows returns under that uuid with a limit that covers the table,
\* and with limit L and offset O get_data_rows returns
\* min(L, max(0, count - O)) rows.
C7_CountMatchesRows ==
    \A e \in experiments :
       LET table_name == DataTableOf(e)
           total == count_data_rows(tables, table_name, e.uuid, NoParticipant, EmptyMap)
           all == get_data_rows(tables, table_name, e.uuid, NoParticipant, EmptyMap,
                                NoTime, NoTime, BigLimit, 0)
       IN  /\ (total.kind = "count") = (all.kind = "rows")
           /\ total.kind = "count" =>
                 /\ all.lists # {}
                 /\ \A rows \in all.lists : Len(rows) = total.count
                 /\ \A l \in 0..BigLimit, o \in 0..BigLimit :
                       LET page == get_data_rows(tables, table_name, e.uuid, NoParticipant,
                                                 EmptyMap, NoTime, NoTime, l, o)
                       IN  /\ page.lists # {}
                           /\ \A rows \in page.lists :
                                 Len(rows) = Min(l, Max(0, total.count - o))

\* an experiment with two rows, of which limit 1 and offset 1 return the second
C7_Witness ==
    \E e \in experiments :
       /\ count_data_rows(tables, DataTableOf(e), e.uuid, NoParticipant, EmptyMap).count = 2
       /\ \E rows \in get_data_rows(tables, DataTableOf(e), e.uuid, NoParticipant, EmptyMap,
                                    NoTime, NoTime, 1, 1).lists : Len(rows) = 1

C10_DropIdempotent ==
    \A x \in TableNames :
       LET first == drop_experiment_table(tables, x)
           second == drop_experiment_table(first.tables, x)
       IN  /\ TableExists(tables, x) =>
                 first.ok /\ ~TableExists(first.tables, x) /\ second.ok
                 /\ second.tables = first.tables
           /\ x \notin existed => first.ok /\ first.tables = tables

ReservedSpellings == UNION {Spellings(w) : w \in {c \in CaseTable : c[2] \in ReservedNames}}
CatalogSpellings ==
    UNION {Spellings(w) : w \in {c \in CaseTable : c[1] \in SUPPORTED_COLUMN_TYPES}}
\* the schema_definition v with its key k spelled as r
Renamed(v, k, r) == (r :> v[k]) @@ [c \in Keys(v) \ {k} |-> v[c]]

Respelled(column_def, type) ==
    IF column_def.form = "str" THEN Bare(type) ELSE Structured(type, column_def.nullable)

\* C13: for every supported type name in any letter case, as a bare text
\* and as a {type, nullable} object, validation succeeds and the schema it
\* returns holds the type in upper case: each column of an accepted
\* schema_definition of a stored experiment type, with its type in any
\* spelling, is accepted and comes back in upper case.
C13_TypesNormalized ==
    \A t \in experiment_types :
       validate_schema_definition(t.schema_definition).ok =>
          \A k \in Keys(t.schema_definition) :
             \A type \in {c \in CatalogSpellings : Upper(c) = Upper(t.schema_definition[k].type)} :
                LET out == validate_schema_definition(k :> Respelled(t.schema_definition[k], type))
                IN  /\ out.ok
                    /\ out.schema_definition[k].type = Upper(type)
                    /\ out.schema_definition[k].type \in SUPPORTED_COLUMN_TYPES

\* schema_definition values ExperimentTypeCreate refuses
InvalidSchemas == {v \in RawSchemas : ~validate_schema_definition(v).ok}

\* C14: PUT /experiment-types/{id} validates schema_definition as the
\* creation does: a schema with a reserved column name, an unsupported type
\* or an object without "type" is refused and the stored experiment type
\* stays as it is.
C14_UpdateValidatesSchema ==
    \A t \in experiment_types, v \in InvalidSchemas :
       /\ ~update_schema_definition(v).ok
       /\ update_experiment_type(experiment_types, t.id,
                                 TypeUpdateData([schema_definition |-> v])).experiment_types
             = experiment_types

\* C15: create_experiment_table for a table that does not exist yet makes
\* exactly the five fixed columns plus one column per schema key that is not
\* one of those five, for bare type names and for {type, nullable} objects
\* alike, and a column whose declared type is not a supported one becomes a
\* String(255) column instead of being left out or failing the call.
C15_TableColumnsFromSchema ==
    \A table_name \in DataTables \ DOMAIN tables, v \in RawSchemas :
       LET out == create_experiment_table(tables, table_name, v)
       IN  /\ out.ok
           /\ out.tables[table_name].columns = FixedColumns \cup Keys(v)
           /\ \A c \in Keys(v) \ FixedColumns :
                 (HasType(v[c]) /\ Upper(v[c].type) \notin SUPPORTED_COLUMN_TYPES) =>
                    out.tables[table_name].types[c] = "String(255)"

\* C17: count_data_rows counts the rows get_data_rows selects: for every
\* experiment_uuid, participant_id, custom filter map and inclusive
\* created_at range, the count taken with the filter arguments
\* count_data_rows has is the number of rows get_data_rows returns for the
\* whole combination with a limit that covers the table.
C17_CountFiltersAsRows ==
    \A e \in experiments, p \in QueryParticipants, f \in QueryFilters :
       \A created_after \in QueryTimes, created_before \in QueryTimes :
          LET table_name == DataTableOf(e)
              total == count_data_rows(tables, table_name, e.uuid, p, f)
              all == get_data_rows(tables, table_name, e.uuid, p, f,
                                   created_after, created_before, BigLimit, 0)
          IN  /\ (total.kind = "count") = (all.kind = "rows")
              /\ total.kind = "count" => \A rows \in all.lists : Len(rows) = total.count

\* C18: for a table name that was never created, or whose table has been
\* dropped, every dynamic-table operation reports absence: get_data_rows
\* returns [], get_data_row_by_id None, insert_data_row None, update_data_row
\* and delete_data_row False, count_data_rows 0, get_table_columns [], and
\* none of them changes the database.
C18_MissingTableReportsAbsence ==
    \A table_name \in TableNames \ DOMAIN tables :
       /\ get_table_columns(tables, table_name) = {}
       /\ \A u \in Uuids \cup {NoUuid}, p \in QueryParticipants, f \in QueryFilters :
             /\ get_data_rows(tables, table_name, u, p, f, NoTime, 1, BigLimit, 0) =
                   [kind |-> "rows", lists |-> {<<>>}]
             /\ count_data_rows(tables, table_name, u, p, f) = [kind |-> "count", count |-> 0]
       /\ \A u \in Uuids \cup {NoUuid}, row_id \in 1..MaxRowId :
             /\ get_data_row_by_id(tables, table_name, row_id, u) = [kind |-> "row", row |-> {}]
             /\ delete_data_row(tables, table_name, row_id, u) =
                   [kind |-> "False", tables |-> tables]
             /\ \A data \in {EmptyMap, [x |-> "v1"]} :
                   update_data_row(tables, now, table_name, row_id, data, u) =
                      [kind |-> "False", tables |-> tables]
       /\ \A u \in Uuids, data \in {EmptyMap, [x |-> "v1"], [bogus |-> "v1"]} :
             insert_data_row(tables, now, table_name, u, "p1", data) =
                [kind |-> "None", tables |-> tables]

\* the table of a deleted experiment type was dropped, and an insert into
\* it gives None
C18_Witness ==
    \E table_name \in (existed \cap TableNames) \ DOMAIN tables :
       /\ type_seq >= 1
       /\ \A t \in experiment_types : t.table_name # table_name
       /\ insert_data_row(tables, now, table_name, UuidNames[1], "p1", EmptyMap).kind = "None"

\* C16: create_experiment, and update_experiment with a patch that sets
\* tags, fail with the ValueError that names the missing tag whenever a name
\* of the list is the name of no Tag row, and then nothing is written: no
\* experiment is created and the experiment keeps its description, its
\* additional_data and its tags.
C16_MissingTagWritesNothing ==
    /\ \A experiment \in ExperimentBodies :
          (\E i \in 1..Len(experiment.tags) :
              get_tag_by_name(tables, experiment.tags[i]) = {}) =>
             LET out == create_experiment(experiment_types, tables, experiments, exp_count,
                                          experiment)
             IN  /\ out.kind = "ValueError"
                 /\ \E i \in 1..Len(experiment.tags) : out.tag = {experiment.tags[i]}
                 /\ \A name \in out.tag : get_tag_by_name(tables, name) = {}
                 /\ out.experiments = experiments
    /\ \A e \in experiments :
          \A experiment_update \in {b \in ExperimentUpdates : "tags" \in DOMAIN b} :
             (\E i \in 1..Len(experiment_update.tags) :
                 get_tag_by_name(tables, experiment_update.tags[i]) = {}) =>
                LET out == update_experiment(tables, experiments, e.uuid, experiment_update)
                IN  /\ out.kind = "ValueError"
                    /\ \E i \in 1..Len(experiment_update.tags) :
                          out.tag = {experiment_update.tags[i]}
                    /\ \A name \in out.tag : get_tag_by_name(tables, name) = {}
                    /\ out.experiments = experiments

\* an experiment tagged g1 exists, g1 is a tag and g2 is none: the patch
\* that sets the tags to g1, g2 raises the ValueError naming g2
C16_Witness ==
    /\ get_tag_by_name(tables, "g1") # {}
    /\ get_tag_by_name(tables, "g2") = {}
    /\ tables["tags"].seq = MaxTags
    /\ \E e \in experiments :
          /\ e.tags = <<"g1">>
          /\ update_experiment(tables, experiments, e.uuid,
                               [tags |-> <<"g1", "g2">>]).tag = {"g2"}

\* C20: after any sequence of validate_key calls every entry of the
\* validation cache holds a result with valid = true; and a call that gave
\* an invalid result (an invalid-key response, a timeout, an HTTP error,
\* another exception) left nothing in the cache for its key and role, so
\* the same call made next contacts the validation service again.
C20_OnlyValidResultsCached ==
    /\ \A cache_key \in DOMAIN validation_cache : validation_cache[cache_key].result.valid
    /\ (last_validation.called /\ ~last_validation.valid) =>
          /\ last_validation.contacted
          /\ get_cache_key(last_validation.key, last_validation.required_role)
                \notin DOMAIN validation_cache
          /\ \A outcome \in VerifyOutcomes(last_validation.key) :
                validate_key(validation_cache, now, last_validation.key,
                             last_validation.required_role, outcome).contacted

\* a key was validated and cached, then a call for another key timed out
C20_Witness ==
    /\ last_validation.called
    /\ last_validation.outcome = "TimeoutException"
    /\ \E cache_key \in DOMAIN validation_cache :
          cache_key # get_cache_key(last_validation.key, last_validation.required_role)

\* the validation service, asked about the key of the request, answers that
\* the key is valid with a role that may access minimum_role
ServiceAccepts(outcome, minimum_role) ==
    /\ outcome.kind = "response"
    /\ outcome.valid
    /\ extract_role(outcome) # NoRole
    /\ can_access(extract_role(outcome), minimum_role)
\* a request without credentials, or one for whose key the service is asked
\* and does not accept
Refused(credentials, outcome, minimum_role) ==
    \/ credentials = NoKey
    \/ /\ validate_key(validation_cache, now, credentials, minimum_role, outcome).contacted
       /\ ~ServiceAccepts(outcome, minimum_role)

\* C19: a request that creates, updates or deletes an experiment type, a
\* tag, an experiment or a data row changes the stored state only if it
\* carries a key the validation service reports valid with a sufficient
\* role: a request with no key or with a key the service does not accept
\* leaves the stored state as it is.
C19_MutationsNeedKey ==
    [][\A credentials \in AuthCredentials :
          /\ \A outcome \in AuthOutcomes(credentials) :
                Refused(credentials, outcome, "RESEARCHER") =>
                   /\ PostTag(credentials, outcome, [name |-> "g1", description |-> "NULL"])
                         => UNCHANGED datavars
                   /\ PostExperiment(credentials, outcome, PlainExperiment(1))
                         => UNCHANGED datavars
          /\ credentials = NoKey =>
                /\ PostExperimentType(credentials, "n1", "t1", EmptyMap) => UNCHANGED datavars
                /\ DeleteExperimentTypeRequest(credentials, 1) => UNCHANGED datavars
                /\ PostExperimentData(credentials, UuidNames[1], "p1", EmptyMap)
                      => UNCHANGED datavars]_vars

\* ---------------------------------------------------------------- C21
\* The order of the roles that test_role_boundary_conditions walks through,
\* lowest first
role_hierarchy == <<"EXPERIMENTEE", "RESEARCHER", "TEST", "ADMIN">>
HierarchyIndex(role) == CHOOSE i \in 1..Len(role_hierarchy) : role_hierarchy[i] = role

\* The answer of the validation service for a valid key that carries one role
RoleResponse(key, role) ==
    [kind |-> "response", valid |-> TRUE, key_id |-> key.body, roles |-> <<Lower(role)>>,
     meta_role |-> NoneValue]

\* C21: with the roles ordered EXPERIMENTEE, RESEARCHER, TEST, ADMIN, the
\* dependency require_role(required) admits a validated key of role user,
\* returning that role, exactly when user is at or above required in that
\* order, and refuses it with a permission error (403) otherwise.
C21_HierarchyAdmitsAtOrAbove ==
    \A key \in ApiKeys, user \in DOMAIN Role, required \in DOMAIN Role :
       LET auth == check_role_authorization(validation_cache, now, key, required,
                                            RoleResponse(key, user))
       IN  (auth.validation.valid /\ auth.role = user) =>
              IF HierarchyIndex(user) >= HierarchyIndex(required)
              THEN auth.status = 200
              ELSE auth.status = 403

\* ---------------------------------------------------------------- C22
\* the rows stored under the uuids of the experiments that match a tag query
RowsUnderMatching(tags, match_all) ==
    UNION {{r \in tables[DataTableOf(e)].rows : r.experiment_uuid = e.uuid} :
              e \in {m \in experiments : MatchesTags(m, tags, match_all)}}

RowIds(list) == {list[i].id : i \in 1..Len(list)}

\* C23: get_data_rows returns the rows by created_at descending with ties
\* broken by row id: for fixed table contents the order is one order, and
\* the pages at offsets 0, L, 2L with limit L are pairwise disjoint and
\* together hold every matching row exactly once, also when rows share one
\* created_at.
C23_PagesPartitionRows ==
    \A e \in experiments, L \in {1, 2} :
       LET page(k) == get_data_rows(tables, DataTableOf(e), e.uuid, NoParticipant,
                                    EmptyMap, NoTime, NoTime, L, k * L).lists
           matching == IF TableExists(tables, DataTableOf(e))
                       THEN {r.id : r \in {q \in tables[DataTableOf(e)].rows :
                                              q.experiment_uuid = e.uuid}}
                       ELSE {}
       IN  /\ \A k \in 0..2 : Cardinality(page(k)) <= 1
           /\ \A p0 \in page(0), p1 \in page(1), p2 \in page(2) :
                 /\ RowIds(p0) \cap RowIds(p1) = {}
                 /\ RowIds(p0) \cap RowIds(p2) = {}
                 /\ RowIds(p1) \cap RowIds(p2) = {}
                 /\ Cardinality(matching) <= 3 * L =>
                       RowIds(p0) \cup RowIds(p1) \cup RowIds(p2) = matching

\* ---------------------------------------------------------------- C24
\* two requests in flight or answered that ask for the same name or the
\* same table_name; the one that lost is the one refused by the name check
\* or by a unique constraint
Conflicting(a, b) ==
    /\ a # b /\ inflight[a] # Idle /\ inflight[b] # Idle
    /\ \/ inflight[a].name = inflight[b].name
       \/ inflight[a].table_name = inflight[b].table_name
LostConflict(r) ==
    /\ inflight[r] # Idle
    /\ inflight[r].outcome \in {"400 name exists", "400 IntegrityError"}

\* C24: under every interleaving of create-experiment-type requests, two
\* requests for one name that both passed the name check included, no two
\* ExperimentType rows share a name or a table_name, at most one of two
\* conflicting requests succeeds, and a request that lost leaves neither
\* an ExperimentType row nor a dynamic table behind.
C24_ConcurrentCreatesStayUnique ==
    /\ [](/\ \A t, u \in experiment_types :
                (t.name = u.name \/ t.table_name = u.table_name) => t = u
          /\ \A a, b \in Requests :
                Conflicting(a, b) =>
                   ~(inflight[a].outcome = "200 Created" /\ inflight[b].outcome = "200 Created")
          /\ \A r \in Requests :
                LostConflict(r) => ~\E t \in experiment_types : t.id = inflight[r].id
          /\ DOMAIN tables \ {"tags"} \subseteq {t.table_name : t \in experiment_types})
    /\ [][\A r \in Requests :
             (~LostConflict(r) /\ LostConflict(r)') =>
                UNCHANGED <<experiment_types, tables>>]_vars

\* two requests for one name both passed the name check, one was created
\* and the other refused
C24_Witness ==
    \E a, b \in Requests :
       /\ Conflicting(a, b) /\ inflight[a].name = inflight[b].name
       /\ inflight[a].outcome = "200 Created"
       /\ inflight[b].outcome = "400 IntegrityError"

\* ---------------------------------------------------------------- C25
\* two updates of the same row that both committed, first before second
CommittedInOrder(first, second) ==
    /\ inflight[first].pc = "done" /\ inflight[second].pc = "done"
    /\ inflight[first].outcome = "True" /\ inflight[second].outcome = "True"
    /\ inflight[first].commit_no = 1 /\ inflight[second].commit_no = 2
    /\ inflight[first].row_id = inflight[second].row_id
    /\ inflight[first].table_name = inflight[second].table_name

\* C25: for two concurrent update_data_row calls on one row, the stored row
\* is the two updates applied one after the other, each as a whole: a
\* column set by both holds the value of the update committed last, a
\* column set by one holds that value, any other column is unchanged.
C25_ConcurrentUpdatesSerialize ==
    \A first, second \in Requests :
       CommittedInOrder(first, second) =>
          \A base \in inflight[first].before :
             \E final \in tables[inflight[first].table_name].rows :
                /\ final.id = inflight[first].row_id
                /\ final = Merge(Merge(base, inflight[first].values), inflight[second].values)
                /\ \A c \in DOMAIN final :
                      final[c] = IF c \in Keys(inflight[second].values)
                                 THEN inflight[second].values[c]
                                 ELSE IF c \in Keys(inflight[first].values)
                                 THEN inflight[first].values[c]
                                 ELSE base[c]

\* the two updates set x both, one of them also participant_id, and the
\* update prepared last committed first
C25_Witness ==
    \E first, second \in Requests :
       /\ CommittedInOrder(first, second)
       /\ "x" \in Keys(inflight[first].values) \cap Keys(inflight[second].values)
       /\ inflight[first].values.x # inflight[second].values.x
       /\ "participant_id" \in Keys(inflight[first].values) \ Keys(inflight[second].values)
       /\ inflight[first].values.updated_at > inflight[second].values.updated_at

\* ---------------------------------------------------------------- C26
\* data maps that name an experiment and a participant themselves
AddressedPayloads ==
    {[experiment_uuid |-> u] : u \in DataUuids}
    \cup {[experiment_uuid |-> u, participant_id |-> p, x |-> "v1"] :
             u \in DataUuids, p \in Participants}
    \cup {EmptyMap, [participant_id |-> "p2"]}

\* the rows a call adds to a table
AddedRows(out, table_name) == out.tables[table_name].rows \ tables[table_name].rows

\* C26: insert_data_row stores the experiment_uuid and the participant_id
\* passed as arguments, also when the data map has these keys: the row of a
\* request addressed to one experiment is never stored under another
\* experiment's uuid.
C26_ArgumentsOverrideData ==
    \A e \in experiments, participant_id \in Participants, data \in AddressedPayloads :
       LET out == insert_data_row(tables, now, DataTableOf(e), e.uuid, participant_id, data)
       IN  out.kind = "id" =>
              /\ AddedRows(out, DataTableOf(e)) # {}
              /\ \A r \in AddedRows(out, DataTableOf(e)) :
                    /\ r.id = out.id
                    /\ r.experiment_uuid = e.uuid
                    /\ r.participant_id = participant_id

\* rows of both experiments are stored, and a data map naming the other
\* experiment and another participant is accepted
C26_Witness ==
    /\ \A e \in experiments :
          /\ TableExists(tables, DataTableOf(e))
          /\ \E r \in tables[DataTableOf(e)].rows : r.experiment_uuid = e.uuid
    /\ \E e \in experiments, data \in AddressedPayloads :
          /\ Keys(data) = {"experiment_uuid", "participant_id", "x"}
          /\ data.experiment_uuid # e.uuid /\ data.participant_id # "p1"
          /\ insert_data_row(tables, now, DataTableOf(e), e.uuid, "p1", data).kind = "id"

\* ---------------------------------------------------------------- C27
\* C27: create_experiment_type succeeds only when it has created a new
\* physical table: for a table_name that already names a table (an orphaned
\* dynamic table or a static table) the creation fails and leaves that
\* table untouched, so that delete_experiment_type never drops a table
\* create_experiment_table did not create (the static table tags stays).
C27_CreateNeedsNewTable ==
    /\ \A name \in TypeNames, table_name \in DOMAIN tables :
          LET out == create_experiment_type(experiment_types, type_seq, tables, name,
                                            table_name, EmptyMap)
          IN  /\ out.kind # "Created"
              /\ out.tables = tables
    /\ \A t \in experiment_types :
          delete_experiment_type(experiment_types, experiments, tables, t.id).kind = "True"
             => TableExists(delete_experiment_type(experiment_types, experiments, tables,
                                                   t.id).tables, "tags")
    /\ TableExists(tables, "tags")

C29_TableFollowsSchema ==
    \A t \in experiment_types :
       /\ TableExists(tables, t.table_name)
       /\ tables[t.table_name].columns \ FixedColumns = Keys(t.schema_definition) \ FixedColumns
       /\ \A k \in Keys(t.schema_definition) \ FixedColumns :
             insert_data_row(tables, now, t.table_name, UuidNames[1], "p1",
                             [c \in {k} |-> "v1"]).kind = "id"

\* ---------------------------------------------------------------- C30
\* C30: validate_key(k, r) returns a valid result only if the validation
\* service reported the key k itself valid for the required role r, in
\* this call or in a call at most one TTL ago: a success cached for one key
\* is never returned for another key, also not for a key with the same first
\* 8 and last 8 characters.  (While the service cannot be reached, a valid
\* result is a cached one, and it is the result of the key that is asked
\* about.)
C30_CacheHitIsOwnKey ==
    \A key \in ApiKeys, required_role \in {NoRole, "RESEARCHER"} :
       LET out == validate_key(validation_cache, now, key, required_role,
                               [kind |-> "TimeoutException"])
       IN  out.result.valid =>
              /\ ~out.contacted
              /\ out.result.key_id = key.body

====
